---- MODULE Spec2Model ----
(***************************************************************************)
(* A model of the proteus protocol interpreter (lang/interpreter.rs): the  *)
(* Program instruction stepper, the Interpreter with its two direction     *)
(* slots and pending NetOps, and the SharedAsyncInterpreter facade whose   *)
(* polls take the global interpreter lock with try_lock.                   *)
(*                                                                         *)
(* Heap, Message, formats and the interpreter's Cipher live in modules of  *)
(* the repository that the interpreter only calls (lang/mem, lang/message, *)
(* lang/types, crypto/chacha); they are modelled from their documented     *)
(* contract.                                                               *)
(***************************************************************************)
EXTENDS Integers, Sequences, FiniteSets, TLC

\* ------------------------------------------------------------------------
\* Bounds of the exploration
\* ------------------------------------------------------------------------

\* How many times the task provider may be asked for tasks in one run.
MaxLoads == 2

\* Payloads handed to a single program have 1..MaxLen bytes, or BigLen.
MaxLen == 3

BigLen == 256

MaxMsgs == 2

\* ------------------------------------------------------------------------
\* Option values: None is the empty tuple, Some(x) the one-element tuple.
\* ------------------------------------------------------------------------

None == <<>>

Some(x) == <<x>>

IsSome(o) == o # <<>>

Unwrap(o) == o[1]

\* ------------------------------------------------------------------------
\* Bytes and big-endian numerics
\* ------------------------------------------------------------------------

RECURSIVE Pow256(_)
Pow256(n) == IF n = 0 THEN 1 ELSE 256 * Pow256(n - 1)

\* Big-endian value of a byte string.
RECURSIVE FromBE(_)
FromBE(bs) ==
    IF bs = <<>> THEN 0
    ELSE 256 * FromBE(SubSeq(bs, 1, Len(bs) - 1)) + bs[Len(bs)]

\* v written big-endian into exactly width bytes (v must fit).
ToBE(v, width) ==
    [i \in 1..width |-> (v \div Pow256(width - i)) % 256]

Zeroes(n) == [i \in 1..n |-> 0]

RECURSIVE SumSeq(_)
SumSeq(s) ==
    IF Len(s) = 0 THEN 0
    ELSE IF Len(s) = 1 THEN s[1]
    ELSE SumSeq(SubSeq(s, 1, Len(s) \div 2))
            + SumSeq(SubSeq(s, Len(s) \div 2 + 1, Len(s)))

\* ------------------------------------------------------------------------
\* Heap<V>: Identifier -> V
\* ------------------------------------------------------------------------

EmptyHeap == [k \in {} |-> 0]

HeapHas(h, k) == k \in DOMAIN h

HeapGet(h, k) == h[k]

HeapInsert(h, k, v) ==
    [x \in (DOMAIN h) \cup {k} |-> IF x = k THEN v ELSE h[x]]

HeapRemove(h, k) == [x \in (DOMAIN h) \ {k} |-> h[x]]

\* ------------------------------------------------------------------------
\* Formats and messages
\* ------------------------------------------------------------------------

\* A field of an abstract format: a PrimitiveArray of count elements of
\* elem bytes each, or a DynamicArray whose size is SizeOf(sizeof).
PrimField(name, elem, count) ==
    [name |-> name, dyn |-> FALSE, len |-> elem * count, sizeof |-> ""]

DynField(name, of) ==
    [name |-> name, dyn |-> TRUE, len |-> 0, sizeof |-> of]

\* The identifiers whose sizes concretize must be given: the dynamic
\* fields of the format, by field name.
GetDynamicArrays(aformat) ==
    {aformat[i].name : i \in {j \in 1..Len(aformat) : aformat[j].dyn}}

RECURSIVE SumLens(_, _)
SumLens(fields, upto) ==
    IF upto = 0 THEN 0 ELSE fields[upto].len + SumLens(fields, upto - 1)

\* concretize: every dynamic field gets the supplied length; offsets are
\* computed left to right.
Concretize(aformat, sizes) ==
    LET lens == [i \in 1..Len(aformat) |->
                    [name |-> aformat[i].name,
                     len  |-> IF aformat[i].dyn
                              THEN sizes[aformat[i].name]
                              ELSE aformat[i].len]]
    IN  [i \in 1..Len(aformat) |->
            [name   |-> lens[i].name,
             len    |-> lens[i].len,
             offset |-> SumLens(lens, i - 1)]]

FormatSize(cformat) == SumLens(cformat, Len(cformat))

\* Message::new: a zeroed buffer of the format's total size.
MessageNew(cformat) ==
    [format |-> cformat, data |-> Zeroes(FormatSize(cformat))]

HasField(msg, id) == \E i \in 1..Len(msg.format) : msg.format[i].name = id

FieldOf(msg, id) ==
    msg.format[CHOOSE i \in 1..Len(msg.format) : msg.format[i].name = id]

GetFieldBytes(msg, id) ==
    LET f == FieldOf(msg, id)
    IN  SubSeq(msg.data, f.offset + 1, f.offset + f.len)

\* set_field_bytes succeeds only for an existing field and an input of
\* exactly the field's length.
CanSetFieldBytes(msg, id, bytes) ==
    HasField(msg, id) /\ Len(bytes) = FieldOf(msg, id).len

SetFieldBytes(msg, id, bytes) ==
    LET f == FieldOf(msg, id)
    IN  [msg EXCEPT !.data =
            SubSeq(msg.data, 1, f.offset) \o bytes
                \o SubSeq(msg.data, f.offset + f.len + 1, Len(msg.data))]

NumericWidths == {1, 2, 4, 8}

CanGetNumeric(msg, id) ==
    HasField(msg, id) /\ FieldOf(msg, id).len \in NumericWidths

GetFieldUnsignedNumeric(msg, id) == FromBE(GetFieldBytes(msg, id))

CanSetNumeric(msg, id, v) ==
    /\ HasField(msg, id)
    /\ FieldOf(msg, id).len \in NumericWidths
    /\ v < Pow256(FieldOf(msg, id).len)

SetFieldUnsignedNumeric(msg, id, v) ==
    SetFieldBytes(msg, id, ToBE(v, FieldOf(msg, id).len))

LenSuffixFromStart(msg, id) == Len(msg.data) - FieldOf(msg, id).offset

\* len_suffix: the bytes that follow the field.  The out tasks compute it
\* over "length" (resp. "length_mac") and the harnesses assert that the
\* length on the wire is payload.len() (resp. payload.len() + 16).
LenSuffix(msg, id) ==
    Len(msg.data) - (FieldOf(msg, id).offset + FieldOf(msg, id).len)

\* ------------------------------------------------------------------------
\* Cipher: a length-preserving AEAD with a 16-byte MAC and one nonce stream
\* per direction.  The n-th nonce of a stream depends on the key, the
\* stream's seed and n only.
\* ------------------------------------------------------------------------

MacLen == 16

SeedA == 170

SeedB == 187

DeriveKey256(password, salt) == IF password = "hunter2" THEN 42 ELSE 99

CipherNew(key, kind) ==
    [kind     |-> kind,
     key      |-> key,
     enc_seed |-> IF kind = "Sender" THEN SeedA ELSE SeedB,
     dec_seed |-> IF kind = "Sender" THEN SeedB ELSE SeedA,
     enc_n    |-> 0,
     dec_n    |-> 0]

\* The keystream byte the n-th nonce of a stream gives; the two streams of
\* a key share no nonce.
Pad(key, seed, n) == (key + seed + 3 * n) % 256

MacOf(plaintext, pad) ==
    [i \in 1..MacLen |-> (SumSeq(plaintext) + Len(plaintext) + 7 * pad) % 256]

SealWith(pad, plaintext) ==
    [ct  |-> [i \in 1..Len(plaintext) |-> (plaintext[i] + pad) % 256],
     mac |-> MacOf(plaintext, pad)]

OpenWith(pad, ct) == [i \in 1..Len(ct) |-> (ct[i] + 256 - pad) % 256]

\* encrypt: one nonce of the send stream is consumed.
CipherEncrypt(c, plaintext) ==
    LET sealed == SealWith(Pad(c.key, c.enc_seed, c.enc_n), plaintext)
    IN  [ct |-> sealed.ct, mac |-> sealed.mac,
         cipher |-> [c EXCEPT !.enc_n = @ + 1]]

\* decrypt: one nonce of the receive stream is consumed; ok is FALSE when
\* the MAC does not authenticate the ciphertext under that nonce.
CipherDecrypt(c, ct, mac) ==
    LET pad   == Pad(c.key, c.dec_seed, c.dec_n)
        plain == OpenWith(pad, ct)
    IN  [ok |-> mac = MacOf(plain, pad), plaintext |-> plain,
         cipher |-> [c EXCEPT !.dec_n = @ + 1]]

\* ------------------------------------------------------------------------
\* NetOps
\* ------------------------------------------------------------------------

RecvOp(kind, lo, hi, addr) ==
    [kind |-> kind, lo |-> lo, hi |-> hi, addr |-> addr, bytes |-> <<>>]

SendOp(kind, bytes) ==
    [kind |-> kind, lo |-> 0, hi |-> 0, addr |-> "", bytes |-> bytes]

ErrorOp(message) ==
    [kind |-> "Error", lo |-> 0, hi |-> 0, addr |-> message, bytes |-> <<>>]

\* ------------------------------------------------------------------------
\* Instructions (the argument records of lang/task.rs as the interpreter
\* reads them)
\* ------------------------------------------------------------------------

ReadApp(lo, hi, to) ==
    [op |-> "ReadApp", lo |-> lo, hi |-> hi, to_heap_id |-> to]

ReadNetRange(lo, hi, to) ==
    [op |-> "ReadNet", from_len |-> "Range", lo |-> lo, hi |-> hi,
     to_heap_id |-> to]

ReadNetIdentifier(id, to) ==
    [op |-> "ReadNet", from_len |-> "Identifier", id |-> id,
     to_heap_id |-> to]

ReadNetIdentifierMinus(id, sub, to) ==
    [op |-> "ReadNet", from_len |-> "IdentifierMinus", id |-> id,
     sub |-> sub, to_heap_id |-> to]

WriteApp(msg, field) ==
    [op |-> "WriteApp", from_msg_heap_id |-> msg, from_field_id |-> field]

WriteNet(msg) == [op |-> "WriteNet", from_msg_heap_id |-> msg]

ConcretizeFormat(aformat, to) ==
    [op |-> "ConcretizeFormat", from_format |-> aformat, to_heap_id |-> to]

CreateMessage(from, to) ==
    [op |-> "CreateMessage", from_format_heap_id |-> from, to_heap_id |-> to]

GetArrayBytes(msg, field, to) ==
    [op |-> "GetArrayBytes", from_msg_heap_id |-> msg,
     from_field_id |-> field, to_heap_id |-> to]

SetArrayBytes(from, msg, field) ==
    [op |-> "SetArrayBytes", from_heap_id |-> from, to_msg_heap_id |-> msg,
     to_field_id |-> field]

GetNumericValue(msg, field, to) ==
    [op |-> "GetNumericValue", from_msg_heap_id |-> msg,
     from_field_id |-> field, to_heap_id |-> to]

SetNumericValue(from, msg, field) ==
    [op |-> "SetNumericValue", from_heap_id |-> from, to_msg_heap_id |-> msg,
     to_field_id |-> field]

ComputeLength(msg, field, to) ==
    [op |-> "ComputeLength", from_msg_heap_id |-> msg,
     from_field_id |-> field, to_heap_id |-> to]

EncryptField(msg, field, to_ct, to_mac) ==
    [op |-> "EncryptField", from_msg_heap_id |-> msg, from_field_id |-> field,
     to_ciphertext_heap_id |-> to_ct, to_mac_heap_id |-> to_mac]

DecryptField(msg, ct_field, mac_field, to) ==
    [op |-> "DecryptField", from_msg_heap_id |-> msg,
     from_ciphertext_field_id |-> ct_field, from_mac_field_id |-> mac_field,
     to_plaintext_heap_id |-> to]

InitFixedSharedKey(password, role) ==
    [op |-> "InitFixedSharedKey", password |-> password, role |-> role]

\* ------------------------------------------------------------------------
\* Program: the runtime instance of a task.  task names an entry of the
\* provider's task table; executed and inst are history fields (the
\* indexes of the instructions this instance has completed, in order, and
\* the number of the instance).
\* ------------------------------------------------------------------------

ProgramNewInheriting(task, inst) ==
    [task           |-> task,
     next_ins_index |-> 0,
     bytes_heap     |-> HeapInsert(EmptyHeap, "payload", <<7>>),
     format_heap    |-> EmptyHeap,
     message_heap   |-> EmptyHeap,
     number_heap    |-> EmptyHeap,
     executed       |-> <<>>,
     inst           |-> inst]

ProgramNew(task, inst) ==
    [task           |-> task,
     next_ins_index |-> 0,
     bytes_heap     |-> EmptyHeap,
     format_heap    |-> EmptyHeap,
     message_heap   |-> EmptyHeap,
     number_heap    |-> EmptyHeap,
     executed       |-> <<>>,
     inst           |-> inst]

\* What one instruction works on: the program and the interpreter fields
\* an instruction can touch.
Ctx(prog, cip, nin, nout, checks) ==
    [prog |-> prog, cipher |-> cip, netop_in |-> nin, netop_out |-> nout,
     overflow_checks |-> checks]

\* The instruction ran to the end of its match arm.
Done(st) == [outcome |-> "ok", why |-> "", st |-> st]

\* The instruction panicked (an unwrap on None/Err or an explicit panic!).
Fatal(why, st) == [outcome |-> "panic", why |-> why, st |-> st]

ExecComputeLengthWhole(args, st) ==
    LET p == st.prog
    IN  IF ~HeapHas(p.message_heap, args.from_msg_heap_id)
        THEN Fatal("missing_key", st)
        ELSE LET msg == HeapGet(p.message_heap, args.from_msg_heap_id)
             IN  IF ~HasField(msg, args.from_field_id)
                 THEN Fatal("missing_field", st)
                 ELSE Done([st EXCEPT !.prog.number_heap =
                        HeapInsert(@, args.to_heap_id, Len(msg.data))])

ExecComputeLength(args, st) ==
    LET p == st.prog
    IN  IF ~HeapHas(p.message_heap, args.from_msg_heap_id)
        THEN Fatal("missing_key", st)
        ELSE LET msg == HeapGet(p.message_heap, args.from_msg_heap_id)
             IN  IF ~HasField(msg, args.from_field_id)
                 THEN Fatal("missing_field", st)
                 ELSE Done([st EXCEPT !.prog.number_heap =
                        HeapInsert(@, args.to_heap_id,
                                   LenSuffix(msg, args.from_field_id))])

ExecConcretizeFormatBySizeOf(args, st) ==
    LET p    == st.prog
        dyns == {args.from_format[i] : i \in
                    {j \in 1..Len(args.from_format) : args.from_format[j].dyn}}
    IN  IF \E f \in dyns : ~HeapHas(p.bytes_heap, f.sizeof)
        THEN Fatal("missing_key", st)
        ELSE LET sizes == [id \in {f.name : f \in dyns} |->
                            Len(HeapGet(p.bytes_heap,
                                (CHOOSE f \in dyns : f.name = id).sizeof))]
             IN  Done([st EXCEPT !.prog.format_heap =
                    HeapInsert(@, args.to_heap_id,
                               Concretize(args.from_format, sizes))])

ExecConcretizeFormat(args, st) ==
    LET p   == st.prog
        ids == GetDynamicArrays(args.from_format)
    IN  IF \E id \in ids : ~HeapHas(p.bytes_heap, id)
        THEN Fatal("missing_key", st)
        ELSE LET sizes == [id \in ids |-> Len(HeapGet(p.bytes_heap, id))]
             IN  Done([st EXCEPT !.prog.format_heap =
                    HeapInsert(@, args.to_heap_id,
                               Concretize(args.from_format, sizes))])

ExecCreateMessageKeepingFormat(args, st) ==
    LET p == st.prog
    IN  IF ~HeapHas(p.format_heap, args.from_format_heap_id)
        THEN Fatal("missing_key", st)
        ELSE Done([st EXCEPT !.prog.message_heap =
                HeapInsert(@, args.to_heap_id,
                    MessageNew(HeapGet(p.format_heap,
                                       args.from_format_heap_id)))])

ExecCreateMessage(args, st) ==
    LET p == st.prog
    IN  IF ~HeapHas(p.format_heap, args.from_format_heap_id)
        THEN Fatal("missing_key", st)
        ELSE LET cformat == HeapGet(p.format_heap, args.from_format_heap_id)
             IN  Done([st EXCEPT
                    !.prog.format_heap =
                        HeapRemove(@, args.from_format_heap_id),
                    !.prog.message_heap =
                        HeapInsert(@, args.to_heap_id, MessageNew(cformat))])

ExecDecryptField(args, st) ==
    LET p == st.prog
    IN  IF ~IsSome(st.cipher) THEN Fatal("no_cipher", st)
        ELSE IF ~HeapHas(p.message_heap, args.from_msg_heap_id)
        THEN Fatal("missing_key", st)
        ELSE LET msg == HeapGet(p.message_heap, args.from_msg_heap_id)
             IN  IF \/ ~HasField(msg, args.from_ciphertext_field_id)
                    \/ ~HasField(msg, args.from_mac_field_id)
                 THEN Fatal("missing_field", st)
                 ELSE IF Len(GetFieldBytes(msg, args.from_mac_field_id)) # MacLen
                 THEN Fatal("len_mismatch", st)
                 ELSE LET r == CipherDecrypt(Unwrap(st.cipher),
                                 GetFieldBytes(msg, args.from_ciphertext_field_id),
                                 GetFieldBytes(msg, args.from_mac_field_id))
                      IN  IF ~r.ok
                          THEN Fatal("decrypt_failure",
                                     [st EXCEPT !.cipher = Some(r.cipher)])
                          ELSE Done([st EXCEPT
                                 !.cipher = Some(r.cipher),
                                 !.prog.bytes_heap =
                                    HeapInsert(@, args.to_plaintext_heap_id,
                                               r.plaintext)])

ExecEncryptFieldSwapped(args, st) ==
    LET r == CipherEncrypt(Unwrap(st.cipher),
                GetFieldBytes(HeapGet(st.prog.message_heap,
                                      args.from_msg_heap_id),
                              args.from_field_id))
    IN  IF ~IsSome(st.cipher) THEN Fatal("no_cipher", st)
        ELSE Done([st EXCEPT
                !.cipher = Some(r.cipher),
                !.prog.bytes_heap =
                    HeapInsert(
                        HeapInsert(@, args.to_ciphertext_heap_id, r.mac),
                        args.to_mac_heap_id, r.ct)])

ExecEncryptField(args, st) ==
    LET p == st.prog
    IN  IF ~IsSome(st.cipher) THEN Fatal("no_cipher", st)
        ELSE IF ~HeapHas(p.message_heap, args.from_msg_heap_id)
        THEN Fatal("missing_key", st)
        ELSE LET msg == HeapGet(p.message_heap, args.from_msg_heap_id)
             IN  IF ~HasField(msg, args.from_field_id)
                 THEN Fatal("missing_field", st)
                 ELSE LET r == CipherEncrypt(Unwrap(st.cipher),
                                 GetFieldBytes(msg, args.from_field_id))
                      IN  Done([st EXCEPT
                             !.cipher = Some(r.cipher),
                             !.prog.bytes_heap =
                                HeapInsert(
                                    HeapInsert(@, args.to_ciphertext_heap_id, r.ct),
                                    args.to_mac_heap_id, r.mac)])

ExecGetArrayBytes(args, st) ==
    LET p == st.prog
    IN  IF ~HeapHas(p.message_heap, args.from_msg_heap_id)
        THEN Fatal("missing_key", st)
        ELSE LET msg == HeapGet(p.message_heap, args.from_msg_heap_id)
             IN  IF ~HasField(msg, args.from_field_id)
                 THEN Fatal("missing_field", st)
                 ELSE Done([st EXCEPT !.prog.bytes_heap =
                        HeapInsert(@, args.to_heap_id,
                                   GetFieldBytes(msg, args.from_field_id))])

ExecGetNumericValueOfFirstByte(args, st) ==
    Done([st EXCEPT !.prog.number_heap =
            HeapInsert(@, args.to_heap_id,
                GetFieldBytes(HeapGet(st.prog.message_heap,
                                      args.from_msg_heap_id),
                              args.from_field_id)[1])])

ExecGetNumericValue(args, st) ==
    LET p == st.prog
    IN  IF ~HeapHas(p.message_heap, args.from_msg_heap_id)
        THEN Fatal("missing_key", st)
        ELSE LET msg == HeapGet(p.message_heap, args.from_msg_heap_id)
             IN  IF ~CanGetNumeric(msg, args.from_field_id)
                 THEN Fatal("missing_field", st)
                 ELSE Done([st EXCEPT !.prog.number_heap =
                        HeapInsert(@, args.to_heap_id,
                            GetFieldUnsignedNumeric(msg, args.from_field_id))])

RoleKindSwapped(role) == IF role = "Client" THEN "Receiver" ELSE "Sender"

RoleKind(role) == IF role = "Client" THEN "Sender" ELSE "Receiver"

ExecInitFixedSharedKeyOnce(args, st) ==
    IF IsSome(st.cipher) THEN Done(st)
    ELSE Done([st EXCEPT !.cipher =
            Some(CipherNew(DeriveKey256(args.password, "stupid stupid stupid"),
                           RoleKind(args.role)))])

ExecInitFixedSharedKey(args, st) ==
    LET skey == DeriveKey256(args.password, "stupid stupid stupid")
    IN  Done([st EXCEPT !.cipher = Some(CipherNew(skey, RoleKind(args.role)))])

ExecReadApp(args, st) ==
    Done([st EXCEPT !.netop_out =
            Some(RecvOp("RecvApp", args.lo, args.hi, args.to_heap_id))])

\* usize arithmetic: 2^64 in the code, 2^24 here (every length of the
\* model is far below it).
UsizeMod == Pow256(3)

\* Range { start: val, end: val + 1 } with val = num or num - sub: ok is
\* FALSE where the arithmetic overflows in a build that checks it; a build
\* that does not wraps.
RangeOfLen(args, num, checks) ==
    LET diff == IF args.from_len = "IdentifierMinus" THEN num - args.sub
                ELSE num
    IN  [ok |-> ~checks \/ (diff >= 0 /\ diff + 1 < UsizeMod),
         lo |-> diff % UsizeMod,
         hi |-> ((diff % UsizeMod) + 1) % UsizeMod]

ExecReadNet(args, st) ==
    LET p == st.prog
    IN  IF args.from_len = "Range"
        THEN Done([st EXCEPT !.netop_in =
                Some(RecvOp("RecvNet", args.lo, args.hi, args.to_heap_id))])
        ELSE IF ~HeapHas(p.number_heap, args.id)
        THEN Fatal("missing_key", st)
        ELSE LET len == RangeOfLen(args, HeapGet(p.number_heap, args.id),
                                   st.overflow_checks)
             IN  IF ~len.ok THEN Fatal("overflow", st)
                 ELSE Done([st EXCEPT !.netop_in =
                        Some(RecvOp("RecvNet", len.lo, len.hi,
                                    args.to_heap_id))])

ExecSetArrayBytesNoop(args, st) == Done(st)

ExecSetArrayBytes(args, st) ==
    LET p == st.prog
    IN  IF \/ ~HeapHas(p.bytes_heap, args.from_heap_id)
           \/ ~HeapHas(p.message_heap, args.to_msg_heap_id)
        THEN Fatal("missing_key", st)
        ELSE LET bytes == HeapGet(p.bytes_heap, args.from_heap_id)
                 msg   == HeapGet(p.message_heap, args.to_msg_heap_id)
             IN  IF ~CanSetFieldBytes(msg, args.to_field_id, bytes)
                 THEN Fatal("len_mismatch",
                            [st EXCEPT !.prog.message_heap =
                                HeapRemove(@, args.to_msg_heap_id)])
                 ELSE Done([st EXCEPT !.prog.message_heap =
                        HeapInsert(@, args.to_msg_heap_id,
                            SetFieldBytes(msg, args.to_field_id, bytes))])

ExecSetNumericValueTruncating(args, st) ==
    LET msg == HeapGet(st.prog.message_heap, args.to_msg_heap_id)
        val == HeapGet(st.prog.number_heap, args.from_heap_id)
    IN  Done([st EXCEPT !.prog.message_heap =
            HeapInsert(@, args.to_msg_heap_id,
                SetFieldUnsignedNumeric(msg, args.to_field_id,
                    val % Pow256(FieldOf(msg, args.to_field_id).len)))])

ExecSetNumericValue(args, st) ==
    LET p == st.prog
    IN  IF \/ ~HeapHas(p.number_heap, args.from_heap_id)
           \/ ~HeapHas(p.message_heap, args.to_msg_heap_id)
        THEN Fatal("missing_key", st)
        ELSE LET val == HeapGet(p.number_heap, args.from_heap_id)
                 msg == HeapGet(p.message_heap, args.to_msg_heap_id)
             IN  IF ~CanSetNumeric(msg, args.to_field_id, val)
                 THEN Fatal("not_fit",
                            [st EXCEPT !.prog.message_heap =
                                HeapRemove(@, args.to_msg_heap_id)])
                 ELSE Done([st EXCEPT !.prog.message_heap =
                        HeapInsert(@, args.to_msg_heap_id,
                            SetFieldUnsignedNumeric(msg, args.to_field_id, val))])

ExecWriteApp(args, st) ==
    LET p == st.prog
    IN  IF ~HeapHas(p.message_heap, args.from_msg_heap_id)
        THEN Fatal("missing_key", st)
        ELSE LET msg  == HeapGet(p.message_heap, args.from_msg_heap_id)
                 gone == [st EXCEPT !.prog.message_heap =
                            HeapRemove(@, args.from_msg_heap_id)]
             IN  IF ~HasField(msg, args.from_field_id)
                 THEN Fatal("missing_field", gone)
                 ELSE Done([gone EXCEPT !.netop_in =
                        Some(SendOp("SendApp",
                                    GetFieldBytes(msg, args.from_field_id)))])

ExecWriteNet(args, st) ==
    LET p == st.prog
    IN  IF ~HeapHas(p.message_heap, args.from_msg_heap_id)
        THEN Fatal("missing_key", st)
        ELSE LET msg == HeapGet(p.message_heap, args.from_msg_heap_id)
             IN  Done([st EXCEPT
                    !.prog.message_heap =
                        HeapRemove(@, args.from_msg_heap_id),
                    !.netop_out = Some(SendOp("SendNet", msg.data))])

\* The match of execute_next_instruction on the instruction's opcode.
Dispatch(ins, st) ==
    CASE ins.op = "ComputeLength"      -> ExecComputeLength(ins, st)
      [] ins.op = "ConcretizeFormat"   -> ExecConcretizeFormat(ins, st)
      [] ins.op = "CreateMessage"      -> ExecCreateMessage(ins, st)
      [] ins.op = "DecryptField"       -> ExecDecryptField(ins, st)
      [] ins.op = "EncryptField"       -> ExecEncryptField(ins, st)
      [] ins.op = "GetArrayBytes"      -> ExecGetArrayBytes(ins, st)
      [] ins.op = "GetNumericValue"    -> ExecGetNumericValue(ins, st)
      [] ins.op = "InitFixedSharedKey" -> ExecInitFixedSharedKey(ins, st)
      [] ins.op = "ReadApp"            -> ExecReadApp(ins, st)
      [] ins.op = "ReadNet"            -> ExecReadNet(ins, st)
      [] ins.op = "SetArrayBytes"      -> ExecSetArrayBytes(ins, st)
      [] ins.op = "SetNumericValue"    -> ExecSetNumericValue(ins, st)
      [] ins.op = "WriteApp"           -> ExecWriteApp(ins, st)
      [] ins.op = "WriteNet"           -> ExecWriteNet(ins, st)
      [] OTHER                         -> Fatal("todo", st)

\* ------------------------------------------------------------------------
\* Formats and tasks a provider hands out.  DataMessageOut/In1/In2 and the
\* tasks PlainOut/PlainIn are those of LengthPayloadSpec; SealedPayload is
\* the DataMessageIn2 of EncryptedLengthPayloadSpec.
\* ------------------------------------------------------------------------

DataMessageOut == <<PrimField("length", 2, 1), DynField("payload", "length")>>

DataMessageIn1 == <<PrimField("length", 2, 1)>>

DataMessageIn2 == <<DynField("payload", "length")>>

SealedPayload ==
    <<DynField("payload", "length"), PrimField("payload_mac", 1, MacLen)>>

LengthAndSmall == <<PrimField("length", 2, 1), PrimField("small", 1, 1)>>

\* abs_format_out of EncryptedLengthPayloadSpec.
SealedMessageOut ==
    <<PrimField("length", 2, 1), PrimField("length_mac", 1, MacLen),
      DynField("payload", "length"), PrimField("payload_mac", 1, MacLen)>>

InitEmpty == [id |-> 0, ins |-> <<>>]

InitKey == [id |-> 3, ins |-> <<InitFixedSharedKey("hunter2", "Client")>>]

PlainOut ==
    [id  |-> 0,
     ins |-> <<ReadApp(1, 65535, "payload"),
               ConcretizeFormat(DataMessageOut, "cformat"),
               CreateMessage("cformat", "message"),
               SetArrayBytes("payload", "message", "payload"),
               ComputeLength("message", "length", "length_value_on_heap"),
               SetNumericValue("length_value_on_heap", "message", "length"),
               WriteNet("message")>>]

PlainIn ==
    [id  |-> 0,
     ins |-> <<ReadNetRange(2, 3, "length"),
               ConcretizeFormat(DataMessageIn1, "cformat1"),
               CreateMessage("cformat1", "message_length_part"),
               SetArrayBytes("length", "message_length_part", "length"),
               GetNumericValue("message_length_part", "length",
                               "payload_len_value"),
               ReadNetIdentifier("payload_len_value", "payload"),
               ConcretizeFormat(DataMessageIn2, "cformat2"),
               CreateMessage("cformat2", "message_payload_part"),
               SetArrayBytes("payload", "message_payload_part", "payload"),
               WriteApp("message_payload_part", "payload")>>]

\* An out task of another id that seals its payload.
SealOut ==
    [id  |-> 1,
     ins |-> <<ReadApp(1, 3, "payload"),
               ConcretizeFormat(SealedPayload, "cformat"),
               CreateMessage("cformat", "message"),
               SetArrayBytes("payload", "message", "payload"),
               EncryptField("message", "payload", "enc_payload_heap",
                            "payload_mac_heap"),
               SetArrayBytes("enc_payload_heap", "message", "payload"),
               SetArrayBytes("payload_mac_heap", "message", "payload_mac"),
               WriteNet("message")>>]

\* An in task of another id that opens a sealed payload.
OpenIn ==
    [id  |-> 1,
     ins |-> <<ReadNetRange(1, 2, "payload"),
               ReadNetRange(MacLen, MacLen + 1, "payload_mac"),
               ConcretizeFormat(SealedPayload, "cformat2"),
               CreateMessage("cformat2", "message_payload_part"),
               SetArrayBytes("payload", "message_payload_part", "payload"),
               SetArrayBytes("payload_mac", "message_payload_part",
                             "payload_mac"),
               DecryptField("message_payload_part", "payload", "payload_mac",
                            "dec_payload_heap"),
               SetArrayBytes("dec_payload_heap", "message_payload_part",
                             "payload"),
               WriteApp("message_payload_part", "payload")>>]

\* An in task that copies a received 16-bit length into an 8-bit field.
NarrowIn ==
    [id  |-> 1,
     ins |-> <<ReadNetRange(2, 3, "length"),
               ConcretizeFormat(LengthAndSmall, "cformat1"),
               CreateMessage("cformat1", "message_length_part"),
               SetArrayBytes("length", "message_length_part", "length"),
               GetNumericValue("message_length_part", "length",
                               "payload_len_value"),
               SetNumericValue("payload_len_value", "message_length_part",
                               "small"),
               WriteApp("message_length_part", "small")>>]

\* An out task of id 0 that reads from the network before it reads from the
\* application: ReadNet publishes in next_netop_in whichever program runs it.
StrayOut ==
    [id  |-> 0,
     ins |-> <<ReadNetRange(2, 3, "length"),
               ReadApp(1, 65535, "payload")>>]

\* An in task that reads a length and then that many bytes less the tag,
\* as the in task of EncryptedLengthPayloadSpec does.
TrimIn ==
    [id  |-> 0,
     ins |-> <<ReadNetRange(2, 3, "length"),
               ConcretizeFormat(DataMessageIn1, "cformat1"),
               CreateMessage("cformat1", "message_length_part"),
               SetArrayBytes("length", "message_length_part", "length"),
               GetNumericValue("message_length_part", "length",
                               "payload_len_value_heap"),
               ReadNetIdentifierMinus("payload_len_value_heap", MacLen,
                                      "payload"),
               ReadNetRange(MacLen, MacLen + 1, "payload_mac")>>]

\* An out task that copies a field out of its message and then asks for a
\* second message of the format the first was made of.
TwiceOut ==
    [id  |-> 0,
     ins |-> <<ReadApp(1, 3, "payload"),
               ConcretizeFormat(DataMessageOut, "cformat"),
               CreateMessage("cformat", "message"),
               SetArrayBytes("payload", "message", "payload"),
               GetArrayBytes("message", "payload", "copy"),
               CreateMessage("cformat", "message2")>>]

\* An out task that installs a key before it reads.
RekeyOut ==
    [id  |-> 2,
     ins |-> <<InitFixedSharedKey("hunter2", "Server"),
               ReadApp(1, 2, "payload")>>]

\* The out task of EncryptedLengthPayloadSpec.
EncOut ==
    [id  |-> 0,
     ins |-> <<ReadApp(1, 65535 - 32, "payload"),
               ConcretizeFormat(SealedMessageOut, "cformat"),
               CreateMessage("cformat", "message"),
               SetArrayBytes("payload", "message", "payload"),
               ComputeLength("message", "length_mac", "length_value_on_heap"),
               SetNumericValue("length_value_on_heap", "message", "length"),
               EncryptField("message", "length", "enc_length_heap",
                            "length_mac_heap"),
               EncryptField("message", "payload", "enc_payload_heap",
                            "payload_mac_heap"),
               SetArrayBytes("enc_length_heap", "message", "length"),
               SetArrayBytes("enc_payload_heap", "message", "payload"),
               SetArrayBytes("length_mac_heap", "message", "length_mac"),
               SetArrayBytes("payload_mac_heap", "message", "payload_mac"),
               WriteNet("message")>>]

\* An out task that measures the suffix of every field of a message.
MeasureOut ==
    [id  |-> 0,
     ins |-> <<ReadApp(1, 65535 - 32, "payload"),
               ConcretizeFormat(SealedMessageOut, "cformat"),
               CreateMessage("cformat", "message"),
               ComputeLength("message", "length", "after_length"),
               ComputeLength("message", "length_mac", "after_length_mac"),
               ComputeLength("message", "payload", "after_payload"),
               ComputeLength("message", "payload_mac", "after_payload_mac"),
               WriteNet("message")>>]

TaskNames == {"InitEmpty", "InitKey", "PlainOut", "PlainIn", "SealOut",
              "OpenIn", "NarrowIn", "StrayOut", "EncOut", "MeasureOut",
              "RekeyOut", "TrimIn", "TwiceOut"}

TaskDef(name) ==
    CASE name = "InitEmpty" -> InitEmpty
      [] name = "InitKey"   -> InitKey
      [] name = "PlainOut"  -> PlainOut
      [] name = "PlainIn"   -> PlainIn
      [] name = "SealOut"   -> SealOut
      [] name = "OpenIn"    -> OpenIn
      [] name = "NarrowIn"  -> NarrowIn
      [] name = "StrayOut"  -> StrayOut
      [] name = "EncOut"    -> EncOut
      [] name = "MeasureOut" -> MeasureOut
      [] name = "RekeyOut"  -> RekeyOut
      [] name = "TrimIn"    -> TrimIn
      [] name = "TwiceOut"  -> TwiceOut

InitTasks == {"InitEmpty", "InitKey"}

\* TaskSet: InTask / OutTask / InAndOutTasks, the absent side being "".
InTask(t) == [in |-> t, out |-> ""]

OutTask(t) == [in |-> "", out |-> t]

InAndOutTasks(i, o) == [in |-> i, out |-> o]

\* What get_next_tasks may return: a provider is any function from the
\* last task id into this family.
TaskSets ==
    {InAndOutTasks("PlainIn", "PlainOut"),
     InAndOutTasks("OpenIn", "SealOut"),
     OutTask("StrayOut"),
     InTask("NarrowIn")}

\* The family of a provider that, besides the above, may hand out a task
\* which derives a new key.
RekeySets == {OutTask("RekeyOut")}

\* ------------------------------------------------------------------------
\* Program stepping
\* ------------------------------------------------------------------------

TaskIdOfInit(prog) == 0

TaskId(prog) == TaskDef(prog.task).id

Ins(prog) == TaskDef(prog.task).ins

HasNextInstruction(prog) == prog.next_ins_index < Len(Ins(prog))

\* History: the instruction at next_ins_index has run to its end.
Executed(prog) == [prog EXCEPT !.executed = Append(@, prog.next_ins_index)]

AdvanceIndexTwice(prog) == [prog EXCEPT !.next_ins_index = @ + 2]

\* self.next_ins_index += 1
AdvanceIndex(prog) == [prog EXCEPT !.next_ins_index = @ + 1]

\* execute_next_instruction: the instruction at next_ins_index runs; the
\* index moves on only when its match arm ran to the end.
FinishAlways(r) == [r EXCEPT !.st.prog = AdvanceIndex(Executed(@))]

\* The end of execute_next_instruction, reached only by a match arm that
\* did not panic: the index moves on and Ok(()) is returned.
Finish(r) ==
    IF r.outcome = "ok"
    THEN [r EXCEPT !.st.prog = AdvanceIndex(Executed(@))]
    ELSE r

ExecuteNextInstruction(st) ==
    Finish(Dispatch(Ins(st.prog)[st.prog.next_ins_index + 1], st))

StoreBytesElsewhere(prog, addr, bytes) ==
    [prog EXCEPT !.bytes_heap = HeapInsert(@, "", bytes)]

\* store_bytes: self.bytes_heap.insert(addr, bytes)
StoreBytes(prog, addr, bytes) ==
    [prog EXCEPT !.bytes_heap = HeapInsert(@, addr, bytes)]

\* ------------------------------------------------------------------------
\* State
\* ------------------------------------------------------------------------

Dirs == {"in", "out"}

VARIABLES
    \* Interpreter
    cipher,         \* Option<Cipher>
    next_netop,     \* [Dirs -> Option<NetOp>]: next_netop_in, next_netop_out
    current_prog,   \* [Dirs -> Option<Program>]: current_prog_in, _out
    last_task_id,
    wants_tasks,
    \* Arc<Mutex<Interpreter>>
    holder,         \* "none", or the direction whose call holds the guard
    poisoned,       \* a call panicked while it held the guard
    \* the two pumps, one per direction
    pc,             \* "idle" | "loop" | "while" | "store" | "panicked"
    program,        \* the local `program` of next_net_cmd_in / _out
    store_args,     \* the (addr, bytes) of the store call in progress
    result,         \* what the pump's last facade poll gave it
    recv_addr,      \* addr of the last Recv NetOp the pump was given
    \* history
    gnt_log,        \* one entry per get_next_tasks call
    completed,      \* programs run to their end, the init program included
    last_done,      \* task id of the program that completed last
    n_new,          \* Program::new calls so far
    stored,         \* the store that landed since the pump's last Recv
    errors,         \* Error NetOps given to the pump so far
    call_log,       \* instructions run by the pump's current or last poll
    fatal,          \* why the pump's call panicked, "" if it did not
    pump,           \* how the pump has used the facade so far
    \* a connected pair of CryptoModules (crypto/prototype.rs)
    peers,
    \* the build: TRUE where integer overflow panics (debug), FALSE where
    \* it wraps (release)
    overflow_checks

vars == <<cipher, next_netop, current_prog, last_task_id, wants_tasks,
          holder, poisoned, pc, program, store_args, result, recv_addr,
          gnt_log, completed, last_done, n_new, stored, errors, call_log,
          fatal, pump, peers, overflow_checks>>

interp == <<cipher, next_netop, current_prog, last_task_id, wants_tasks>>

history == <<gnt_log, completed, last_done, n_new, stored, errors,
             call_log, fatal>>

current_prog_in == current_prog["in"]

current_prog_out == current_prog["out"]

next_netop_in == next_netop["in"]

next_netop_out == next_netop["out"]

\* ------------------------------------------------------------------------
\* What a pump gets back from a poll of the facade future
\* ------------------------------------------------------------------------

NoResult == [kind |-> "None", why |-> "", netop |-> None]

\* Poll::Pending, and which return of the closure gave it.
PollPending(why) == [kind |-> "Pending", why |-> why, netop |-> None]

PollReady(netop) == [kind |-> "Ready", why |-> "", netop |-> Some(netop)]

Stored == [kind |-> "Stored", why |-> "", netop |-> None]

Unwound == [kind |-> "Panicked", why |-> "", netop |-> None]

\* The bytes a pump may hand to store_in / store_out for an address.
SealedSeven == SealWith(Pad(DeriveKey256("hunter2", ""), SeedB, 0), <<7>>)

InputsFor(addr) ==
    CASE addr = "payload"     -> {<<7>>, SealedSeven.ct}
      [] addr = "length"      -> {<<0, 1>>, <<1, 0>>}
      [] addr = "payload_mac" -> {SealedSeven.mac, Zeroes(MacLen)}
      [] OTHER                -> {<<7>>}

\* ------------------------------------------------------------------------
\* The use a pump makes of the facade (history).  A pump that was given a
\* Recv NetOp owes one store of a length in the NetOp's range before its next
\* poll, and stores at no other time, as the harnesses' read_app and
\* read_net do; strayed records that it did otherwise.
\* ------------------------------------------------------------------------

PumpNew == [owes |-> None, strayed |-> FALSE, polled |-> FALSE, sends |-> 0]

\* What is kept of a pump that strayed: that it did.
Strayed == [owes |-> None, strayed |-> TRUE, polled |-> TRUE, sends |-> 0]

\* next_net_cmd_* is called.
Polls(h) ==
    IF h.strayed \/ IsSome(h.owes) THEN Strayed
    ELSE [h EXCEPT !.polled = TRUE]

\* store_* is called with bytes.
Stores(h, bytes) ==
    IF \/ h.strayed
       \/ ~IsSome(h.owes)
       \/ Len(bytes) < Unwrap(h.owes).lo
       \/ Len(bytes) >= Unwrap(h.owes).hi
    THEN Strayed
    ELSE [h EXCEPT !.owes = None]

\* The poll returned netop.
Given(h, netop) ==
    IF h.strayed THEN Strayed
    ELSE [h EXCEPT !.owes = IF netop.kind \in {"RecvApp", "RecvNet"}
                            THEN Some(netop) ELSE None,
                   !.sends = IF netop.kind \in {"SendApp", "SendNet"}
                             THEN @ + 1 ELSE @]

NoPeers == <<>>

\* ------------------------------------------------------------------------
\* Interpreter::new
\* ------------------------------------------------------------------------

\* while init_prog.has_next_instruction() { execute_next_instruction }
RECURSIVE RunInit(_)
RunInit(st) ==
    IF HasNextInstruction(st.prog)
    THEN RunInit(ExecuteNextInstruction(st).st)
    ELSE st

InterpreterNew(task) ==
    RunInit(Ctx(ProgramNew(task, 0), None, None, None, TRUE))

LastTaskIdDefault(st) == 0

\* int.last_task_id = init_prog.task.id
LastTaskIdAfterNew(st) == TaskId(st.prog)

Init ==
    \E t \in InitTasks :
        LET st == InterpreterNew(t)
        IN  /\ cipher = st.cipher
            /\ next_netop = [d \in Dirs |->
                    IF d = "in" THEN st.netop_in ELSE st.netop_out]
            /\ current_prog = [d \in Dirs |-> None]
            /\ last_task_id = LastTaskIdAfterNew(st)
            /\ wants_tasks = TRUE
            /\ holder = "none"
            /\ poisoned = FALSE
            /\ pc = [d \in Dirs |-> "idle"]
            /\ program = [d \in Dirs |-> None]
            /\ store_args = [d \in Dirs |-> None]
            /\ result = [d \in Dirs |-> NoResult]
            /\ recv_addr = [d \in Dirs |-> ""]
            /\ gnt_log = <<>>
            /\ completed = 1
            /\ last_done = TaskId(st.prog)
            /\ n_new = 1
            /\ stored = [d \in Dirs |-> None]
            /\ errors = [d \in Dirs |-> 0]
            /\ call_log = [d \in Dirs |-> <<>>]
            /\ fatal = [d \in Dirs |-> ""]
            /\ pump = [d \in Dirs |-> PumpNew]
            /\ peers = NoPeers
            /\ overflow_checks = TRUE

\* ------------------------------------------------------------------------
\* The mutex
\* ------------------------------------------------------------------------

TryLockAlways == TRUE

\* try_lock gives Ok only for a mutex that is neither held nor poisoned.
TryLockOk == holder = "none" /\ ~poisoned

GuardLeaked(d) == d

\* The holder once the guard of direction d's call has gone out of scope.
GuardDropped(d) == "none"

\* ------------------------------------------------------------------------
\* load_tasks / set_task
\* ------------------------------------------------------------------------

SetTaskRewinding(opt, new, inst) ==
    IF IsSome(opt)
    THEN IF TaskId(Unwrap(opt)) # TaskDef(new).id
         THEN [ok |-> FALSE, slot |-> opt, made |-> 0]
         ELSE [ok |-> TRUE,
               slot |-> Some([Unwrap(opt) EXCEPT !.next_ins_index = 0]),
               made |-> 0]
    ELSE [ok |-> TRUE, slot |-> Some(ProgramNew(new, inst)), made |-> 1]

SetTaskOverwrite(opt, new, inst) ==
    [ok |-> TRUE, slot |-> Some(ProgramNew(new, inst)), made |-> 1]

\* set_task: the slot after the call, or a panic on an occupied slot whose
\* task id differs.
SetTask(opt, new, inst) ==
    IF IsSome(opt)
    THEN IF TaskId(Unwrap(opt)) # TaskDef(new).id
         THEN [ok |-> FALSE, slot |-> opt, made |-> 0]
         ELSE [ok |-> TRUE, slot |-> opt, made |-> 0]
    ELSE [ok |-> TRUE, slot |-> Some(ProgramNew(new, inst)), made |-> 1]

LoadTasksResultInOnly(ts, slots, inst) ==
    LET rin == IF ts.in = ""
               THEN [ok |-> TRUE, slot |-> slots["in"], made |-> 0]
               ELSE SetTask(slots["in"], ts.in, inst)
    IN  [ok    |-> rin.ok,
         slots |-> [d \in Dirs |-> IF d = "in" THEN rin.slot ELSE slots["out"]],
         made  |-> rin.made]

\* The match of load_tasks on the TaskSet: the in task is set first.
LoadTasksResult(ts, slots, inst) ==
    LET rin  == IF ts.in = ""
                THEN [ok |-> TRUE, slot |-> slots["in"], made |-> 0]
                ELSE SetTask(slots["in"], ts.in, inst)
        rout == IF ts.out = "" \/ ~rin.ok
                THEN [ok |-> TRUE, slot |-> slots["out"], made |-> 0]
                ELSE SetTask(slots["out"], ts.out, inst + rin.made)
    IN  [ok    |-> rin.ok /\ rout.ok,
         slots |-> [d \in Dirs |-> IF d = "in" THEN rin.slot ELSE rout.slot],
         made  |-> rin.made + rout.made]

\* ------------------------------------------------------------------------
\* SharedAsyncInterpreter: one poll of a facade future by the pump of
\* direction d.  The steps between taking and dropping the guard are the
\* body of Interpreter::next_net_cmd_in / _out (or store_in / _out).
\* ------------------------------------------------------------------------

\* try_lock fails (held by the other call, or poisoned): Poll::Pending.
TryLockBusy(d) ==
    /\ pc[d] = "idle"
    /\ ~TryLockOk
    /\ result' = [result EXCEPT ![d] =
            PollPending(IF poisoned THEN "poisoned" ELSE "busy")]
    /\ UNCHANGED <<interp, holder, poisoned, pc, program, store_args,
                   recv_addr, history>>
    /\ UNCHANGED <<pump, peers, overflow_checks>>

\* next_net_cmd_*: try_lock succeeds; the interpreter call begins.
PollEnter(d) ==
    /\ pc[d] = "idle"
    /\ TryLockOk
    /\ holder' = d
    /\ pc' = [pc EXCEPT ![d] = "loop"]
    /\ result' = [result EXCEPT ![d] = NoResult]
    /\ call_log' = [call_log EXCEPT ![d] = <<>>]
    /\ UNCHANGED <<interp, poisoned, program, store_args, recv_addr,
                   gnt_log, completed, last_done, n_new, stored, errors,
                   fatal>>
    /\ pump' = [pump EXCEPT ![d] = Polls(@)]
    /\ UNCHANGED <<peers, overflow_checks>>

\* The panic of a call that holds the guard: the guard is dropped while
\* unwinding, which poisons the mutex; the pump's task is gone.
Unwind(d, why) ==
    /\ holder' = GuardDropped(d)
    /\ poisoned' = TRUE
    /\ pc' = [pc EXCEPT ![d] = "panicked"]
    /\ result' = [result EXCEPT ![d] = Unwound]
    /\ fatal' = [fatal EXCEPT ![d] = why]

WantsTasksStaysSet == TRUE

\* self.wants_tasks = false, the last statement of load_tasks.
WantsTasksAfterLoad == FALSE

Loaded(ok, r) ==
    /\ r.ok = ok
    /\ current_prog' = r.slots
    /\ n_new' = n_new + r.made

\* if self.wants_tasks { self.load_tasks() }, every set_task succeeding;
\* the provider answers with a member of sets.
LoadTasksFrom(d, sets) ==
    /\ pc[d] = "loop"
    /\ wants_tasks
    /\ Len(gnt_log) < MaxLoads
    /\ \E ts \in sets :
        /\ Loaded(TRUE, LoadTasksResult(ts, current_prog, n_new))
        /\ gnt_log' = Append(gnt_log,
                [arg |-> last_task_id, completed |-> completed,
                 last_done |-> last_done, ts |-> ts])
    /\ wants_tasks' = WantsTasksAfterLoad
    /\ UNCHANGED <<cipher, next_netop, last_task_id, holder, poisoned, pc,
                   program, store_args, result, recv_addr, completed,
                   last_done, stored, errors, call_log, fatal>>
    /\ UNCHANGED <<pump, peers, overflow_checks>>

LoadTasks(d) == LoadTasksFrom(d, TaskSets)

\* load_tasks with a set_task that panics ("Cannot overwrite task").
LoadTasksPanicFrom(d, sets) ==
    /\ pc[d] = "loop"
    /\ wants_tasks
    /\ Len(gnt_log) < MaxLoads
    /\ \E ts \in sets :
        /\ Loaded(FALSE, LoadTasksResult(ts, current_prog, n_new))
        /\ gnt_log' = Append(gnt_log,
                [arg |-> last_task_id, completed |-> completed,
                 last_done |-> last_done, ts |-> ts])
    /\ Unwind(d, "id_conflict")
    /\ UNCHANGED <<cipher, next_netop, last_task_id, wants_tasks, program,
                   store_args, recv_addr, completed, last_done, stored,
                   errors, call_log>>
    /\ UNCHANGED <<pump, peers, overflow_checks>>

LoadTasksPanic(d) == LoadTasksPanicFrom(d, TaskSets)

\* load_tasks of a provider whose answer is a rekeying task.
LoadRekey(d) == LoadTasksFrom(d, RekeySets)

LoadRekeyPanic(d) == LoadTasksPanicFrom(d, RekeySets)

\* match self.current_prog_*.take() { Some(mut program) => ...
TakeProgram(d) ==
    /\ pc[d] = "loop"
    /\ ~wants_tasks
    /\ IsSome(current_prog[d])
    /\ program' = [program EXCEPT ![d] = current_prog[d]]
    /\ current_prog' = [current_prog EXCEPT ![d] = None]
    /\ pc' = [pc EXCEPT ![d] = "while"]
    /\ UNCHANGED <<cipher, next_netop, last_task_id, wants_tasks, holder,
                   poisoned, store_args, result, recv_addr, history>>
    /\ UNCHANGED <<pump, peers, overflow_checks>>

BlockedAsksAgain(d) ==
    /\ pc[d] = "loop"
    /\ ~wants_tasks
    /\ ~IsSome(current_prog[d])
    /\ holder' = GuardDropped(d)
    /\ pc' = [pc EXCEPT ![d] = "idle"]
    /\ result' = [result EXCEPT ![d] = PollPending("blocked")]
    /\ wants_tasks' = TRUE
    /\ UNCHANGED <<cipher, next_netop, current_prog, last_task_id, poisoned,
                   program, store_args, recv_addr, history>>
    /\ UNCHANGED <<pump, peers, overflow_checks>>

\* ... None => return Err(()) }: the direction is blocked, Poll::Pending.
Blocked(d) ==
    /\ pc[d] = "loop"
    /\ ~wants_tasks
    /\ ~IsSome(current_prog[d])
    /\ holder' = GuardDropped(d)
    /\ pc' = [pc EXCEPT ![d] = "idle"]
    /\ result' = [result EXCEPT ![d] = PollPending("blocked")]
    /\ UNCHANGED <<interp, poisoned, program, store_args, recv_addr,
                   history>>
    /\ UNCHANGED <<pump, peers, overflow_checks>>

\* The interpreter fields as one instruction of direction d's program
\* leaves them: an Err becomes the direction's Error NetOp.
Settle(d, r) ==
    [outcome |-> r.outcome, why |-> r.why, prog |-> r.st.prog,
     cipher |-> r.st.cipher,
     netops |-> [x \in Dirs |->
                IF r.outcome = "err" /\ x = d THEN Some(ErrorOp(r.why))
                ELSE IF x = "in" THEN r.st.netop_in ELSE r.st.netop_out]]

AfterInstruction(d) ==
    Settle(d, ExecuteNextInstruction(
                Ctx(Unwrap(program[d]), cipher, next_netop["in"],
                    next_netop["out"], overflow_checks)))

Logged(d) ==
    Append(call_log[d],
           [inst |-> Unwrap(program[d]).inst,
            task |-> Unwrap(program[d]).task,
            idx  |-> Unwrap(program[d]).next_ins_index,
            op   |-> Ins(Unwrap(program[d]))[Unwrap(program[d]).next_ins_index + 1].op])

\* The while loop goes round: the instruction set no NetOp for d.
StepTo(d, a) ==
    /\ a.outcome # "panic"
    /\ ~IsSome(a.netops[d])
    /\ program' = [program EXCEPT ![d] = Some(a.prog)]
    /\ cipher' = a.cipher
    /\ next_netop' = a.netops

YieldToAndDrop(d, a) ==
    /\ a.outcome # "panic"
    /\ IsSome(a.netops[d])
    /\ cipher' = a.cipher
    /\ next_netop' = [a.netops EXCEPT ![d] = None]
    /\ current_prog' = current_prog
    /\ result' = [result EXCEPT ![d] = PollReady(Unwrap(a.netops[d]))]
    /\ recv_addr' = recv_addr
    /\ stored' = stored
    /\ errors' = errors

\* if let Some(netop) = self.next_netop_*.take() { ...; return Ok(netop) }
YieldTo(d, a) ==
    /\ a.outcome # "panic"
    /\ IsSome(a.netops[d])
    /\ cipher' = a.cipher
    /\ next_netop' = [a.netops EXCEPT ![d] = None]
    /\ current_prog' = [current_prog EXCEPT ![d] = Some(a.prog)]
    /\ result' = [result EXCEPT ![d] = PollReady(Unwrap(a.netops[d]))]
    /\ recv_addr' = [recv_addr EXCEPT ![d] =
            IF Unwrap(a.netops[d]).kind \in {"RecvApp", "RecvNet"}
            THEN Unwrap(a.netops[d]).addr ELSE @]
    /\ stored' = [stored EXCEPT ![d] =
            IF Unwrap(a.netops[d]).kind \in {"RecvApp", "RecvNet"}
            THEN None ELSE @]
    /\ errors' = [errors EXCEPT ![d] =
            IF Unwrap(a.netops[d]).kind = "Error" THEN @ + 1 ELSE @]

\* The instruction panicked: nothing after it in the loop body runs.
PanicTo(d, a) ==
    /\ a.outcome = "panic"
    /\ program' = [program EXCEPT ![d] = Some(a.prog)]
    /\ cipher' = a.cipher
    /\ next_netop' = a.netops
    /\ Unwind(d, a.why)

\* One turn of the while loop that leaves no NetOp for this direction.
Step(d) ==
    /\ pc[d] = "while"
    /\ HasNextInstruction(Unwrap(program[d]))
    /\ StepTo(d, AfterInstruction(d))
    /\ call_log' = [call_log EXCEPT ![d] = Logged(d)]
    /\ UNCHANGED <<current_prog, last_task_id, wants_tasks, holder, poisoned,
                   pc, store_args, result, recv_addr, gnt_log, completed,
                   last_done, n_new, stored, errors, fatal>>
    /\ UNCHANGED <<pump, peers, overflow_checks>>

\* One turn of the while loop after which this direction's NetOp is set:
\* it is taken, the program goes back into its slot, Ok(netop) is returned
\* and the facade gives Poll::Ready(netop).
Yield(d) ==
    /\ pc[d] = "while"
    /\ HasNextInstruction(Unwrap(program[d]))
    /\ YieldTo(d, AfterInstruction(d))
    /\ program' = [program EXCEPT ![d] = None]
    /\ holder' = GuardDropped(d)
    /\ pc' = [pc EXCEPT ![d] = "idle"]
    /\ call_log' = [call_log EXCEPT ![d] = Logged(d)]
    /\ UNCHANGED <<last_task_id, wants_tasks, poisoned, store_args, gnt_log,
                   completed, last_done, n_new, fatal>>
    /\ pump' = [pump EXCEPT ![d] =
            Given(@, Unwrap(AfterInstruction(d).netops[d]))]
    /\ UNCHANGED <<peers, overflow_checks>>

\* One turn of the while loop whose instruction panics.  program keeps the
\* value the local had when unwinding began.
ExecPanic(d) ==
    /\ pc[d] = "while"
    /\ HasNextInstruction(Unwrap(program[d]))
    /\ PanicTo(d, AfterInstruction(d))
    /\ call_log' = [call_log EXCEPT ![d] = Logged(d)]
    /\ UNCHANGED <<current_prog, last_task_id, wants_tasks, store_args,
                   recv_addr, gnt_log, completed, last_done, n_new, stored,
                   errors>>
    /\ UNCHANGED <<pump, peers, overflow_checks>>

\* The while loop ends: self.last_task_id = program.task.id;
\* self.wants_tasks = true; the program is dropped and the loop goes round.
Complete(d) ==
    /\ pc[d] = "while"
    /\ ~HasNextInstruction(Unwrap(program[d]))
    /\ last_task_id' = TaskId(Unwrap(program[d]))
    /\ wants_tasks' = TRUE
    /\ program' = [program EXCEPT ![d] = None]
    /\ pc' = [pc EXCEPT ![d] = "loop"]
    /\ completed' = completed + 1
    /\ last_done' = TaskId(Unwrap(program[d]))
    /\ UNCHANGED <<cipher, next_netop, current_prog, holder, poisoned,
                   store_args, result, recv_addr, gnt_log, n_new, stored,
                   errors, call_log, fatal>>
    /\ UNCHANGED <<pump, peers, overflow_checks>>

\* The address a pump stores at: that of the last Recv it was given.
StoreAddr(d) == IF recv_addr[d] = "" THEN "payload" ELSE recv_addr[d]

\* store_in / store_out: try_lock succeeds.
StoreEnter(d) ==
    /\ pc[d] = "idle"
    /\ TryLockOk
    /\ \E bytes \in InputsFor(StoreAddr(d)) :
        /\ store_args' = [store_args EXCEPT ![d] =
                            Some([addr |-> StoreAddr(d), bytes |-> bytes])]
        /\ pump' = [pump EXCEPT ![d] = Stores(@, bytes)]
    /\ holder' = d
    /\ pc' = [pc EXCEPT ![d] = "store"]
    /\ result' = [result EXCEPT ![d] = NoResult]
    /\ UNCHANGED <<interp, poisoned, program, recv_addr, history, peers,
                   overflow_checks>>

StoreDoneInBoth(d) ==
    /\ pc[d] = "store"
    /\ current_prog' = [x \in Dirs |->
            IF IsSome(current_prog[x])
            THEN Some(StoreBytes(Unwrap(current_prog[x]),
                                 Unwrap(store_args[d]).addr,
                                 Unwrap(store_args[d]).bytes))
            ELSE current_prog[x]]
    /\ store_args' = [store_args EXCEPT ![d] = None]
    /\ holder' = GuardDropped(d)
    /\ pc' = [pc EXCEPT ![d] = "idle"]
    /\ result' = [result EXCEPT ![d] = Stored]
    /\ stored' = [stored EXCEPT ![d] =
            IF IsSome(current_prog[d])
            THEN Some([inst  |-> Unwrap(current_prog[d]).inst,
                       addr  |-> Unwrap(store_args[d]).addr,
                       bytes |-> Unwrap(store_args[d]).bytes])
            ELSE @]
    /\ UNCHANGED <<cipher, next_netop, last_task_id, wants_tasks, poisoned,
                   program, recv_addr, gnt_log, completed, last_done, n_new,
                   errors, call_log, fatal>>
    /\ UNCHANGED <<pump, peers, overflow_checks>>

\* Interpreter::store_in / store_out, then Poll::Ready(()).
StoreDone(d) ==
    /\ pc[d] = "store"
    /\ current_prog' = [current_prog EXCEPT ![d] =
            IF IsSome(@)
            THEN Some(StoreBytes(Unwrap(@), Unwrap(store_args[d]).addr,
                                 Unwrap(store_args[d]).bytes))
            ELSE @]
    /\ store_args' = [store_args EXCEPT ![d] = None]
    /\ holder' = GuardDropped(d)
    /\ pc' = [pc EXCEPT ![d] = "idle"]
    /\ result' = [result EXCEPT ![d] = Stored]
    /\ stored' = [stored EXCEPT ![d] =
            IF IsSome(current_prog[d])
            THEN Some([inst  |-> Unwrap(current_prog[d]).inst,
                       addr  |-> Unwrap(store_args[d]).addr,
                       bytes |-> Unwrap(store_args[d]).bytes])
            ELSE @]
    /\ UNCHANGED <<cipher, next_netop, last_task_id, wants_tasks, poisoned,
                   program, recv_addr, gnt_log, completed, last_done, n_new,
                   errors, call_log, fatal>>
    /\ UNCHANGED <<pump, peers, overflow_checks>>

Next ==
    \E d \in Dirs :
        \/ TryLockBusy(d)
        \/ PollEnter(d)
        \/ LoadTasks(d)
        \/ LoadTasksPanic(d)
        \/ TakeProgram(d)
        \/ Blocked(d)
        \/ Step(d)
        \/ Yield(d)
        \/ ExecPanic(d)
        \/ Complete(d)
        \/ StoreEnter(d)
        \/ StoreDone(d)

Spec == Init /\ [][Next]_vars

\* The facade under a provider that may also hand out the rekeying task.
RekeyNext ==
    \/ Next
    \/ \E d \in Dirs : LoadRekey(d) \/ LoadRekeyPanic(d)

RekeySpec == Init /\ [][RekeyNext]_vars

\* ------------------------------------------------------------------------
\* Scheduling of the two pumps.  A call that has taken the guard runs on to
\* its return, and a pump whose last call returned makes its next call.  A
\* poll_fn closure that returned Poll::Pending took no waker from the
\* Context (its argument is ignored), so nothing schedules another poll of
\* that future: the re-poll of a pending call is possible, never due.
\* ------------------------------------------------------------------------

InCall(d) ==
    \/ LoadTasks(d) \/ LoadTasksPanic(d) \/ TakeProgram(d) \/ Blocked(d)
    \/ Step(d) \/ Yield(d) \/ ExecPanic(d) \/ Complete(d) \/ StoreDone(d)

FreshCall(d) ==
    /\ result[d].kind # "Pending"
    /\ (PollEnter(d) \/ StoreEnter(d) \/ TryLockBusy(d))

FairSpec ==
    /\ Init
    /\ [][Next]_vars
    /\ \A d \in Dirs : WF_vars(InCall(d)) /\ WF_vars(FreshCall(d))

\* ------------------------------------------------------------------------
\* One program on its own: execute_next_instruction is called until the
\* program ends or panics, and store_bytes is called with a blob of the
\* requested length after a Recv NetOp.  The task, the init task (with or
\* without a key) and the blobs are the inputs.
\* ------------------------------------------------------------------------

ProgTasks == {"PlainOut", "PlainIn", "EncOut", "MeasureOut", "NarrowIn",
              "TrimIn", "OpenIn", "TwiceOut"}

DirOf(t) ==
    IF t \in {"PlainIn", "NarrowIn", "TrimIn", "OpenIn"} THEN "in" ELSE "out"

BlobLens == (1..MaxLen) \cup {BigLen}

Blob(n, seed) == [i \in 1..n |-> (seed + 31 * i) % 256]

\* Payloads of every length, the two-byte prefixes that announce them, and
\* a sealed payload with its tag and with a wrong one.
Blobs ==
    {Blob(n, seed) : n \in BlobLens, seed \in {7, 200}}
        \cup {ToBE(n, 2) : n \in BlobLens}
        \cup {SealedSeven.ct, SealedSeven.mac, Zeroes(MacLen)}

\* One program of one of the tasks, right after set_task, in an
\* interpreter that some init task has set up.
ProgInitOf(tasks) ==
    \E t \in tasks, k \in InitTasks :
        /\ cipher = InterpreterNew(k).cipher
        /\ next_netop = [d \in Dirs |-> None]
        /\ current_prog = [d \in Dirs |-> None]
        /\ last_task_id = TaskDef(k).id
        /\ wants_tasks = FALSE
        /\ holder = "none"
        /\ poisoned = FALSE
        /\ pc = [d \in Dirs |-> IF d = DirOf(t) THEN "while" ELSE "idle"]
        /\ program = [d \in Dirs |->
                IF d = DirOf(t) THEN Some(ProgramNew(t, 1)) ELSE None]
        /\ store_args = [d \in Dirs |-> None]
        /\ result = [d \in Dirs |-> NoResult]
        /\ recv_addr = [d \in Dirs |-> ""]
        /\ gnt_log = <<>>
        /\ completed = 1
        /\ last_done = TaskDef(k).id
        /\ n_new = 2
        /\ stored = [d \in Dirs |-> None]
        /\ errors = [d \in Dirs |-> 0]
        /\ call_log = [d \in Dirs |-> <<>>]
        /\ fatal = [d \in Dirs |-> ""]
        /\ pump = [d \in Dirs |-> PumpNew]
        /\ peers = NoPeers
        /\ overflow_checks \in BOOLEAN

ProgInit == ProgInitOf(ProgTasks)

\* The instruction returned Ok(()): the NetOp it published, if any, is
\* handed to the caller.
RanTo(d, a) ==
    /\ a.outcome # "panic"
    /\ program' = [program EXCEPT ![d] = Some(a.prog)]
    /\ cipher' = a.cipher
    /\ next_netop' = [a.netops EXCEPT ![d] = None]
    /\ result' = [result EXCEPT ![d] =
            IF IsSome(a.netops[d]) THEN PollReady(Unwrap(a.netops[d]))
            ELSE NoResult]
    /\ recv_addr' = [recv_addr EXCEPT ![d] =
            IF IsSome(a.netops[d]) THEN Unwrap(a.netops[d]).addr ELSE @]

FailedTo(d, a) ==
    /\ a.outcome = "panic"
    /\ program' = [program EXCEPT ![d] = Some(a.prog)]
    /\ cipher' = a.cipher
    /\ next_netop' = a.netops
    /\ pc' = [pc EXCEPT ![d] = "panicked"]
    /\ fatal' = [fatal EXCEPT ![d] = a.why]

ProgExec(d) ==
    /\ pc[d] = "while"
    /\ HasNextInstruction(Unwrap(program[d]))
    /\ RanTo(d, AfterInstruction(d))
    /\ call_log' = [call_log EXCEPT ![d] = Logged(d)]
    /\ UNCHANGED <<current_prog, last_task_id, wants_tasks, holder, poisoned,
                   pc, store_args, gnt_log, completed, last_done, n_new,
                   stored, errors, fatal>>
    /\ UNCHANGED <<pump, peers, overflow_checks>>

ProgFail(d) ==
    /\ pc[d] = "while"
    /\ HasNextInstruction(Unwrap(program[d]))
    /\ FailedTo(d, AfterInstruction(d))
    /\ call_log' = [call_log EXCEPT ![d] = Logged(d)]
    /\ UNCHANGED <<current_prog, last_task_id, wants_tasks, holder, poisoned,
                   store_args, result, recv_addr, gnt_log, completed,
                   last_done, n_new, stored, errors>>
    /\ UNCHANGED <<pump, peers, overflow_checks>>

\* store_bytes with a blob whose length is in the range the Recv gave.
ProgFeedFrom(d, blobs) ==
    /\ pc[d] = "while"
    /\ result[d].kind = "Ready"
    /\ Unwrap(result[d].netop).kind \in {"RecvApp", "RecvNet"}
    /\ \E bytes \in blobs :
        /\ Unwrap(result[d].netop).lo <= Len(bytes)
        /\ Len(bytes) < Unwrap(result[d].netop).hi
        /\ program' = [program EXCEPT ![d] =
                Some(StoreBytes(Unwrap(@), recv_addr[d], bytes))]
        /\ stored' = [stored EXCEPT ![d] =
                Some([inst |-> Unwrap(program[d]).inst,
                      addr |-> recv_addr[d], bytes |-> bytes])]
    /\ result' = [result EXCEPT ![d] = Stored]
    /\ UNCHANGED <<interp, holder, poisoned, pc, store_args, recv_addr,
                   gnt_log, completed, last_done, n_new, errors, call_log,
                   fatal>>
    /\ UNCHANGED <<pump, peers, overflow_checks>>

ProgFeed(d) == ProgFeedFrom(d, Blobs)

ProgNext == \E d \in Dirs : ProgExec(d) \/ ProgFail(d) \/ ProgFeed(d)

ProgSpec == ProgInit /\ [][ProgNext]_vars

\* ------------------------------------------------------------------------
\* The two out tasks of the shipped specifications on payloads at the ends
\* of the range their ReadApp asks for.
\* ------------------------------------------------------------------------

EdgeTasks == {"PlainOut", "EncOut"}

\* The two shortest and the two longest lengths in a ReadApp's range.
EdgeLens ==
    UNION {{TaskDef(t).ins[1].lo, TaskDef(t).ins[1].lo + 1,
            TaskDef(t).ins[1].hi - 2, TaskDef(t).ins[1].hi - 1} :
                t \in EdgeTasks}

EdgeBlobs == {Blob(n, 7) : n \in EdgeLens}

EdgeInit == ProgInitOf(EdgeTasks)

EdgeFeed(d) == ProgFeedFrom(d, EdgeBlobs)

EdgeNext == \E d \in Dirs : ProgExec(d) \/ ProgFail(d) \/ EdgeFeed(d)

EdgeSpec == EdgeInit /\ [][EdgeNext]_vars

\* ------------------------------------------------------------------------
\* crypto/prototype.rs: Cipher and a connected pair of CryptoModules.  The
\* peers encrypt in any order; the network delivers the ciphertexts of a
\* direction in any order, or loses them.  x25519, Salsa20 and ChaCha20Poly1305 are small stand-ins with
\* the crates' algebra: a commutative key agreement, a keystream that is a
\* function of key, nonce seed and position, an AEAD whose tag binds the
\* plaintext to the nonce.
\* ------------------------------------------------------------------------

Peers == {"alice", "bob"}

Other(p) == IF p = "alice" THEN "bob" ELSE "alice"

\* OsRng.fill_bytes(&mut key): what the two modules may draw.
SecretKeys == {2, 3, 5}

Plaintexts == {<<104, 105>>, <<108>>}

RECURSIVE ModExp(_, _)
ModExp(b, e) == IF e = 0 THEN 1 ELSE (b * ModExp(b, e - 1)) % 251

\* PublicKey::from(&self.my_secret_key)
PublicKeyOf(sk) == ModExp(6, sk)

X25519(sk, their_public_key) == ModExp(their_public_key, sk)

Salsa20New(key, nonce) == [key |-> key, nonce |-> nonce, pos |-> 0]

GetNonceStuck(nonce_gen) ==
    [nonce |-> (nonce_gen.key + nonce_gen.nonce + 3 * nonce_gen.pos) % 256,
     gen   |-> nonce_gen]

\* get_nonce: the next 12 bytes of the generator's keystream.
GetNonce(nonce_gen) ==
    [nonce |-> (nonce_gen.key + nonce_gen.nonce + 3 * nonce_gen.pos) % 256,
     gen   |-> [nonce_gen EXCEPT !.pos = @ + 1]]

PrototypeCipherNewUnmirrored(secret_key, cipher_kind) ==
    [encryption_nonce_gen |->
        Salsa20New(secret_key, IF cipher_kind = "Sender" THEN SeedA ELSE SeedB),
     decryption_nonce_gen |->
        Salsa20New(secret_key, IF cipher_kind = "Sender" THEN SeedA ELSE SeedB),
     key |-> secret_key]

\* Cipher::new
PrototypeCipherNew(secret_key, cipher_kind) ==
    [encryption_nonce_gen |->
        Salsa20New(secret_key, IF cipher_kind = "Sender" THEN SeedA ELSE SeedB),
     decryption_nonce_gen |->
        Salsa20New(secret_key, IF cipher_kind = "Sender" THEN SeedB ELSE SeedA),
     key |-> secret_key]

\* Cipher::encrypt: ciphertext and tag in one Vec.
PrototypeEncrypt(c, plaintext) ==
    LET g      == GetNonce(c.encryption_nonce_gen)
        sealed == SealWith(g.nonce, plaintext)
    IN  [cipher |-> [c EXCEPT !.encryption_nonce_gen = g.gen],
         out    |-> sealed.ct \o sealed.mac]

PrototypeDecryptUnchecked(c, ciphertext) ==
    LET g   == GetNonce(c.decryption_nonce_gen)
        n   == Len(ciphertext) - MacLen
    IN  [cipher |-> [c EXCEPT !.decryption_nonce_gen = g.gen],
         ok     |-> n >= 0,
         out    |-> OpenWith(g.nonce, SubSeq(ciphertext, 1, n))]

\* Cipher::decrypt: ok is FALSE where expect("decryption failure") panics.
PrototypeDecrypt(c, ciphertext) ==
    LET g   == GetNonce(c.decryption_nonce_gen)
        n   == Len(ciphertext) - MacLen
        pt  == OpenWith(g.nonce, SubSeq(ciphertext, 1, n))
    IN  [cipher |-> [c EXCEPT !.decryption_nonce_gen = g.gen],
         ok     |-> /\ n >= 0
                    /\ SubSeq(ciphertext, n + 1, Len(ciphertext))
                          = MacOf(pt, g.nonce),
         out    |-> pt]

\* my_role: Sender unless their public key is below mine.
MyRole(my_secret_key, their_public_key) ==
    IF their_public_key < PublicKeyOf(my_secret_key)
    THEN "Receiver" ELSE "Sender"

\* receive_their_half_handshake, after produce_my_half_handshake
ReceiveTheirHalfHandshake(my_secret_key, their_public_key) ==
    PrototypeCipherNew(X25519(my_secret_key, their_public_key),
                       MyRole(my_secret_key, their_public_key))

\* suggest_ciphertext_nbytes: the Poly1305 tag is 16 bytes.
SuggestCiphertextNBytes(plaintext_len) == plaintext_len + MacLen

DeterminePlaintextSizeWhole(ciphertext_len) == Some(ciphertext_len)

\* determine_plaintext_size: None where the difference is negative.
DeterminePlaintextSize(ciphertext_len) ==
    IF ciphertext_len - MacLen >= 0 THEN Some(ciphertext_len - MacLen)
    ELSE None

\* Cursor<Bytes>: a buffer and the position read so far.
Cursor(bytes, pos) == [bytes |-> bytes, pos |-> pos]

Remaining(cursor) == Len(cursor.bytes) - cursor.pos

\* What the application may hand to encrypt: a cursor anywhere in a
\* plaintext, and a ciphertext length around the tag length.
Cursors == {Cursor(<<104, 105>>, n) : n \in 0..1}

CiphertextLens == (MacLen - 1)..(MacLen + 2)

\* History: the last call of the public encrypt by a peer, and how the call
\* before it ended.
NoCall == [kind |-> "None", cursor |-> Cursor(<<>>, 0), len |-> 0,
           out |-> <<>>, pos |-> 0, seq |-> 0, prev |-> "None"]

\* A public encrypt that takes a nonce before it looks at the length.
PublicEncryptBurning(c, cursor, ciphertext_len) ==
    IF ciphertext_len < SuggestCiphertextNBytes(0)
    THEN [kind |-> "Err", cipher |-> PrototypeEncrypt(c, <<>>).cipher,
          out |-> <<>>, pos |-> cursor.pos, taken |-> <<>>]
    ELSE LET required == Unwrap(DeterminePlaintextSize(ciphertext_len))
             taken    == SubSeq(cursor.bytes, cursor.pos + 1,
                                cursor.pos + required)
         IN  IF Remaining(cursor) < required
             THEN [kind |-> "panic", cipher |-> c, out |-> <<>>,
                   pos |-> cursor.pos, taken |-> <<>>]
             ELSE [kind |-> "Ok",
                   cipher |-> PrototypeEncrypt(c, taken).cipher,
                   out |-> PrototypeEncrypt(c, taken).out,
                   pos |-> cursor.pos + required,
                   taken |-> taken]

\* CryptoModule::encrypt: kind is "Err" for Err(CryptFailure), "panic" for
\* unimplemented!, "Ok" otherwise, with the ciphertext, the cipher and the
\* cursor's position after copy_to_bytes.
PublicEncrypt(c, cursor, ciphertext_len) ==
    IF ciphertext_len < SuggestCiphertextNBytes(0)
    THEN [kind |-> "Err", cipher |-> c, out |-> <<>>, pos |-> cursor.pos,
          taken |-> <<>>]
    ELSE LET required == Unwrap(DeterminePlaintextSize(ciphertext_len))
             taken    == SubSeq(cursor.bytes, cursor.pos + 1,
                                cursor.pos + required)
         IN  IF Remaining(cursor) < required
             THEN [kind |-> "panic", cipher |-> c, out |-> <<>>,
                   pos |-> cursor.pos, taken |-> <<>>]
             ELSE [kind |-> "Ok",
                   cipher |-> PrototypeEncrypt(c, taken).cipher,
                   out |-> PrototypeEncrypt(c, taken).out,
                   pos |-> cursor.pos + required,
                   taken |-> taken]

\* get_connected_pair
GetConnectedPair(alice_secret, bob_secret) ==
    [cipher |-> [p \in Peers |->
                    IF p = "alice"
                    THEN ReceiveTheirHalfHandshake(alice_secret,
                                                   PublicKeyOf(bob_secret))
                    ELSE ReceiveTheirHalfHandshake(bob_secret,
                                                   PublicKeyOf(alice_secret))],
     role   |-> [p \in Peers |->
                    IF p = "alice"
                    THEN MyRole(alice_secret, PublicKeyOf(bob_secret))
                    ELSE MyRole(bob_secret, PublicKeyOf(alice_secret))],
     wire   |-> [p \in Peers |-> {}],
     sent   |-> [p \in Peers |-> <<>>],
     nonces |-> [p \in Peers |-> <<>>],
     made   |-> [p \in Peers |-> <<>>],
     got    |-> [p \in Peers |-> <<>>],
     missed |-> [p \in Peers |-> <<>>],
     lost   |-> [p \in Peers |-> {}],
     api    |-> [p \in Peers |-> NoCall],
     down   |-> [p \in Peers |-> FALSE]]

CipherInit ==
    /\ \E a \in SecretKeys, b \in SecretKeys : peers = GetConnectedPair(a, b)
    /\ cipher = None
    /\ next_netop = [d \in Dirs |-> None]
    /\ current_prog = [d \in Dirs |-> None]
    /\ last_task_id = 0
    /\ wants_tasks = TRUE
    /\ holder = "none"
    /\ poisoned = FALSE
    /\ pc = [d \in Dirs |-> "idle"]
    /\ program = [d \in Dirs |-> None]
    /\ store_args = [d \in Dirs |-> None]
    /\ result = [d \in Dirs |-> NoResult]
    /\ recv_addr = [d \in Dirs |-> ""]
    /\ gnt_log = <<>>
    /\ completed = 1
    /\ last_done = 0
    /\ n_new = 1
    /\ stored = [d \in Dirs |-> None]
    /\ errors = [d \in Dirs |-> 0]
    /\ call_log = [d \in Dirs |-> <<>>]
    /\ fatal = [d \in Dirs |-> ""]
    /\ pump = [d \in Dirs |-> PumpNew]
    /\ overflow_checks = TRUE

\* A ciphertext on its way: seq is the number of the encryption that made
\* it (history).
Frame(seq, bytes) == [seq |-> seq, bytes |-> bytes]

\* encrypt_impl by peer p; the ciphertext goes on the wire to the other.
EncryptImpl(p) ==
    /\ ~peers.down[p]
    /\ Len(peers.sent[p]) < MaxMsgs
    /\ \E plaintext \in Plaintexts :
        peers' = [peers EXCEPT
            !.cipher[p] = PrototypeEncrypt(@, plaintext).cipher,
            !.wire[Other(p)] = @ \cup
                {Frame(Len(peers.sent[p]) + 1,
                       PrototypeEncrypt(peers.cipher[p], plaintext).out)},
            !.sent[p] = Append(@, plaintext),
            !.nonces[p] = Append(@,
                GetNonce(peers.cipher[p].encryption_nonce_gen).nonce),
            !.made[p] = Append(@,
                PrototypeEncrypt(peers.cipher[p], plaintext).out)]
    /\ UNCHANGED <<interp, holder, poisoned, pc, program, store_args, result,
                   recv_addr, history, pump, overflow_checks>>

\* The call as the history keeps it.
Called(r, cursor, ciphertext_len, seq, prev) ==
    [kind |-> r.kind, cursor |-> cursor, len |-> ciphertext_len,
     out |-> r.out, pos |-> r.pos, seq |-> seq, prev |-> prev]

\* The public encrypt by peer p returned Ok(ciphertext) as r, and the
\* ciphertext goes on the wire to the other.
Encrypted(p, r, cursor, ciphertext_len) ==
    /\ r.kind = "Ok"
    /\ peers' = [peers EXCEPT
            !.cipher[p] = r.cipher,
            !.wire[Other(p)] = @ \cup {Frame(Len(peers.sent[p]) + 1, r.out)},
            !.sent[p] = Append(@, r.taken),
            !.nonces[p] = Append(@,
                GetNonce(peers.cipher[p].encryption_nonce_gen).nonce),
            !.made[p] = Append(@, r.out),
            !.api[p] = Called(r, cursor, ciphertext_len,
                              Len(peers.sent[p]) + 1, peers.api[p].kind)]

\* It returned Err(CryptFailure), or it panicked and took the module with
\* it; the module keeps the cipher as the call left it.
Refused(p, r, cursor, ciphertext_len) ==
    /\ r.kind # "Ok"
    /\ peers' = [peers EXCEPT
            !.cipher[p] = r.cipher,
            !.api[p] = Called(r, cursor, ciphertext_len, 0,
                              peers.api[p].kind),
            !.down[p] = (r.kind = "panic")]

EncryptOk(p) ==
    /\ ~peers.down[p]
    /\ Len(peers.sent[p]) < MaxMsgs
    /\ \E cursor \in Cursors, ciphertext_len \in CiphertextLens :
        Encrypted(p, PublicEncrypt(peers.cipher[p], cursor, ciphertext_len),
                  cursor, ciphertext_len)
    /\ UNCHANGED <<interp, holder, poisoned, pc, program, store_args, result,
                   recv_addr, history, pump, overflow_checks>>

EncryptRefused(p) ==
    /\ ~peers.down[p]
    /\ \E cursor \in Cursors, ciphertext_len \in CiphertextLens :
        Refused(p, PublicEncrypt(peers.cipher[p], cursor, ciphertext_len),
                cursor, ciphertext_len)
    /\ UNCHANGED <<interp, holder, poisoned, pc, program, store_args, result,
                   recv_addr, history, pump, overflow_checks>>

\* decrypt_impl by peer p of a ciphertext that reached it, in whatever
\* order the network delivers.
DecryptImpl(p) ==
    /\ ~peers.down[p]
    /\ \E f \in peers.wire[p] :
        /\ PrototypeDecrypt(peers.cipher[p], f.bytes).ok
        /\ peers' = [peers EXCEPT
                !.cipher[p] = PrototypeDecrypt(@, f.bytes).cipher,
                !.wire[p] = @ \ {f},
                !.got[p] = Append(@,
                    PrototypeDecrypt(peers.cipher[p], f.bytes).out)]
    /\ UNCHANGED <<interp, holder, poisoned, pc, program, store_args, result,
                   recv_addr, history, pump, overflow_checks>>

\* decrypt_impl panics: the nonce is spent, the module is gone.  missed
\* keeps which frame it was and the number of the decryption (history).
DecryptFailure(p) ==
    /\ ~peers.down[p]
    /\ \E f \in peers.wire[p] :
        /\ ~PrototypeDecrypt(peers.cipher[p], f.bytes).ok
        /\ peers' = [peers EXCEPT
                !.cipher[p] = PrototypeDecrypt(@, f.bytes).cipher,
                !.wire[p] = @ \ {f},
                !.missed[p] = Append(@,
                    [seq |-> f.seq,
                     pos |-> peers.cipher[p].decryption_nonce_gen.pos + 1]),
                !.down[p] = TRUE]
    /\ UNCHANGED <<interp, holder, poisoned, pc, program, store_args, result,
                   recv_addr, history, pump, overflow_checks>>

\* The network loses a ciphertext on its way to peer p.
DropFrame(p) ==
    /\ \E f \in peers.wire[p] :
        peers' = [peers EXCEPT !.wire[p] = @ \ {f},
                               !.lost[p] = @ \cup {f.seq}]
    /\ UNCHANGED <<interp, holder, poisoned, pc, program, store_args, result,
                   recv_addr, history, pump, overflow_checks>>

CipherNext ==
    \E p \in Peers :
        \/ EncryptImpl(p)
        \/ DecryptImpl(p)
        \/ DecryptFailure(p)
        \/ DropFrame(p)

CipherSpec == CipherInit /\ [][CipherNext]_vars

\* The pair of test_public_api: alice calls the public encrypt, bob the
\* public decrypt (Ok(decrypt_impl(ciphertext))).
ApiNext ==
    \/ EncryptOk("alice")
    \/ EncryptRefused("alice")
    \/ DecryptImpl("bob")
    \/ DecryptFailure("bob")

ApiSpec == CipherInit /\ [][ApiNext]_vars

\* ------------------------------------------------------------------------
\* Properties
\* ------------------------------------------------------------------------

\* The programs that exist: those in the slots and the locals of the calls.
Programs(d) ==
    {Unwrap(o) : o \in {x \in {current_prog[d], program[d]} : IsSome(x)}}

Inside(d) == pc[d] \in {"loop", "while", "store"}

\* The opcodes that publish a NetOp for direction d.
Publishes(op, d) ==
    \/ d = "out" /\ op \in {"ReadApp", "WriteNet"}
    \/ d = "in" /\ op \in {"ReadNet", "WriteApp"}

NetOpKindOf(op) ==
    CASE op = "ReadApp"  -> "RecvApp"
      [] op = "WriteNet" -> "SendNet"
      [] op = "ReadNet"  -> "RecvNet"
      [] op = "WriteApp" -> "SendApp"
      [] OTHER           -> "None"

\* The logged instruction is the one right after a ReadApp / ReadNet.
FollowsRecv(e) ==
    e.idx > 0 /\ TaskDef(e.task).ins[e.idx].op \in {"ReadApp", "ReadNet"}

\* C1: the instructions of every program instance have run in the declared
\* order, each once: the completed indexes are 0, 1, .., next_ins_index - 1
\* and next_ins_index never exceeds the length of task.ins.
C1_InDeclaredOrder ==
    \A d \in Dirs : \A p \in Programs(d) :
        /\ p.next_ins_index <= Len(Ins(p))
        /\ Len(p.executed) = p.next_ins_index
        /\ \A i \in 1..Len(p.executed) : p.executed[i] = i - 1

\* A program that has run all of its instructions over several polls.
C1_Witness ==
    \E d \in Dirs :
        /\ IsSome(current_prog[d])
        /\ Unwrap(current_prog[d]).next_ins_index
                = Len(Ins(Unwrap(current_prog[d])))
        /\ Len(Ins(Unwrap(current_prog[d]))) > 1
        /\ result[d].kind = "Ready"

\* C2 as stated: of the instructions a poll of direction d runs, only the
\* last one publishes a NetOp for d; the poll returns the NetOp of that
\* instruction, with the publishing program back in its slot and its index
\* right behind the publishing instruction.
C2_StopsAtFirstNetOp ==
    \A d \in Dirs :
        /\ \A i \in 1..Len(call_log[d]) :
              Publishes(call_log[d][i].op, d) =>
                  i = Len(call_log[d]) /\ pc[d] \notin {"loop", "while"}
        /\ result[d].kind = "Ready" =>
              /\ pc[d] = "idle"
              /\ call_log[d] # <<>>
              /\ Publishes(call_log[d][Len(call_log[d])].op, d)
              /\ Unwrap(result[d].netop).kind
                    = NetOpKindOf(call_log[d][Len(call_log[d])].op)
              /\ IsSome(current_prog[d])
              /\ Unwrap(current_prog[d]).inst
                    = call_log[d][Len(call_log[d])].inst
              /\ Unwrap(current_prog[d]).next_ins_index
                    = call_log[d][Len(call_log[d])].idx + 1

\* C3 as stated: a program goes on past its ReadApp / ReadNet only after
\* the caller's store: a poll whose first instruction is the one behind a
\* Recv has run it only if a store landed in that program since the Recv.
C3_ResumesOnlyAfterStore ==
    \A d \in Dirs :
        (/\ pc[d] = "while"
         /\ call_log[d] # <<>>
         /\ FollowsRecv(call_log[d][1]))
        => (IsSome(stored[d])
            /\ Unwrap(stored[d]).inst = call_log[d][1].inst)

\* C3 amended: the program goes on at the next poll of its direction with
\* or without a store; when a store landed in it since the Recv, the bytes
\* are in its byte heap at the stored address when the poll takes it up.
C3_StoredBytesAtResume ==
    \A d \in Dirs :
        (/\ pc[d] = "while"
         /\ call_log[d] = <<>>
         /\ IsSome(stored[d])
         /\ Unwrap(stored[d]).inst = Unwrap(program[d]).inst)
        => (/\ HeapHas(Unwrap(program[d]).bytes_heap, Unwrap(stored[d]).addr)
            /\ HeapGet(Unwrap(program[d]).bytes_heap, Unwrap(stored[d]).addr)
                  = Unwrap(stored[d]).bytes)

\* A poll takes up a program behind its Recv with the stored bytes in it.
C3_Witness ==
    \E d \in Dirs :
        /\ pc[d] = "while"
        /\ call_log[d] = <<>>
        /\ IsSome(stored[d])
        /\ Unwrap(stored[d]).inst = Unwrap(program[d]).inst
        /\ Unwrap(program[d]).next_ins_index > 0
        /\ Ins(Unwrap(program[d]))[Unwrap(program[d]).next_ins_index].op
              \in {"ReadApp", "ReadNet"}

\* C4: a step in which an instruction fails leaves next_ins_index as it
\* was, and a step that runs an instruction runs the one at an index that
\* has not been completed before.
C4_NoAdvanceOnFailure ==
    [][\A d \in Dirs :
         /\ (pc[d] = "while" /\ pc'[d] = "panicked") =>
               /\ Unwrap(program'[d]).next_ins_index
                     = Unwrap(program[d]).next_ins_index
               /\ Unwrap(program'[d]).executed = Unwrap(program[d]).executed
         /\ (pc[d] = "while" /\ call_log'[d] # call_log[d]) =>
               \A i \in 1..Len(Unwrap(program[d]).executed) :
                   Unwrap(program[d]).executed[i]
                       # call_log'[d][Len(call_log'[d])].idx
      ]_vars

\* An instruction failed after others of the same program had completed.
C4_Witness ==
    \E d \in Dirs :
        /\ pc[d] = "panicked"
        /\ IsSome(program[d])
        /\ Unwrap(program[d]).next_ins_index > 0
        /\ Unwrap(program[d]).next_ins_index < Len(Ins(Unwrap(program[d])))

\* C5: get_next_tasks is called at most once per completed program (the
\* init program included), each time with the task id of the program that
\* completed last.
C5_OneRequestPerCompletion ==
    /\ Len(gnt_log) <= completed
    /\ \A i \in 1..Len(gnt_log) :
          /\ gnt_log[i].arg = gnt_log[i].last_done
          /\ i > 1 => gnt_log[i].completed > gnt_log[i - 1].completed

\* A second request, made with the id of a completed program of id 1.
C5_Witness ==
    /\ Len(gnt_log) >= 2
    /\ gnt_log[2].arg = 1
    /\ gnt_log[1].arg = 0

\* C6: a get_next_tasks answer never replaces the program of an occupied
\* slot; a task for an occupied slot of another id makes the load panic; a
\* slot filled by the load holds a fresh program of the returned task.
C6_LoadKeepsOccupiedSlot ==
    [][Len(gnt_log') = Len(gnt_log) + 1 =>
        \A d \in Dirs :
            LET ts == gnt_log'[Len(gnt_log')].ts
            IN  /\ IsSome(current_prog[d]) =>
                      /\ current_prog'[d] = current_prog[d]
                      /\ (ts[d] # ""
                          /\ TaskDef(ts[d]).id # TaskId(Unwrap(current_prog[d])))
                         => (\E e \in Dirs : pc[e] = "loop"
                                /\ pc'[e] = "panicked"
                                /\ fatal'[e] = "id_conflict")
                /\ (~IsSome(current_prog[d]) /\ IsSome(current_prog'[d])) =>
                      /\ ts[d] # ""
                      /\ Unwrap(current_prog'[d]).task = ts[d]
                      /\ Unwrap(current_prog'[d]).next_ins_index = 0
                      /\ Unwrap(current_prog'[d]).bytes_heap = EmptyHeap
      ]_vars

\* A load hit an occupied slot of another id: the old program is still there.
C6_Witness ==
    \E d, e \in Dirs :
        /\ fatal[d] = "id_conflict"
        /\ IsSome(current_prog[e])
        /\ TaskId(Unwrap(current_prog[e])) = 0
        /\ gnt_log[Len(gnt_log)].ts[e] # ""
        /\ TaskDef(gnt_log[Len(gnt_log)].ts[e]).id = 1

\* C7 as stated: whenever a fatal condition is met in a poll of direction
\* d, that poll returns an Error NetOp.
C7_FatalReturnsError ==
    \A d \in Dirs :
        fatal[d] # "" =>
            /\ result[d].kind = "Ready"
            /\ Unwrap(result[d].netop).kind = "Error"

\* C8 as stated: a fatal error of direction d has surfaced as exactly one
\* Error NetOp of d once its poll has ended, and never as more than one.
C8_ErrorExactlyOnce ==
    \A d \in Dirs :
        /\ errors[d] <= 1
        /\ (fatal[d] # "" /\ ~Inside(d)) => errors[d] = 1

\* C9: at most one call is inside the interpreter, it is the holder of the
\* mutex, and every change of interpreter state is made by the holder.
C9_OneCallerInside ==
    /\ [](\A d \in Dirs : Inside(d) => holder = d)
    /\ [][interp' # interp => (holder # "none" /\ Inside(holder))]_vars

\* One pump is inside the interpreter while the other found the lock busy.
C9_Witness ==
    \E d, e \in Dirs :
        /\ d # e
        /\ pc[d] = "while"
        /\ holder = d
        /\ result[e] = PollPending("busy")

\* C10: a pump that is not inside a facade poll does not hold the mutex.
C10_ReleasedOnEveryExit ==
    \A d \in Dirs : ~Inside(d) => holder # d

\* The polls have ended in each way: Ready, blocked, busy; the lock is free.
C10_Witness ==
    \E d, e \in Dirs :
        /\ d # e
        /\ result[d] = PollPending("blocked")
        /\ result[e].kind = "Ready"
        /\ holder = "none"

\* C11 as stated: a poll of direction d that yielded Poll::Pending is polled
\* again and completes: once the mutex is free and healthy and d's slot
\* holds a program to step, the pending call of d eventually returns.
C11_YieldedCallCompletes ==
    \A d \in Dirs :
        (/\ pc[d] = "idle"
         /\ result[d].kind = "Pending"
         /\ holder = "none"
         /\ ~poisoned
         /\ ~wants_tasks
         /\ IsSome(current_prog[d])
         /\ HasNextInstruction(Unwrap(current_prog[d])))
        ~> (result[d].kind # "Pending")

\* The program that runs alone in direction d, and the NetOp it last gave.
Alone(d) == Unwrap(program[d])

Gave(d, kind) ==
    /\ IsSome(program[d])
    /\ result[d].kind = "Ready"
    /\ Unwrap(result[d].netop).kind = kind

\* C12: when the plaintext out task gives SendNet, its bytes are the
\* two-byte big-endian length N of the payload stored in answer to RecvApp
\* followed by the N payload bytes, N + 2 bytes in all.
C12_PlainFrame ==
    (Gave("out", "SendNet") /\ Alone("out").task = "PlainOut") =>
        /\ IsSome(stored["out"])
        /\ Unwrap(result["out"].netop).bytes
              = ToBE(Len(Unwrap(stored["out"]).bytes), 2)
                    \o Unwrap(stored["out"]).bytes
        /\ Len(Unwrap(result["out"].netop).bytes)
              = Len(Unwrap(stored["out"]).bytes) + 2

\* A frame for a payload of BigLen bytes: the high byte of the length counts.
C12_Witness ==
    /\ Gave("out", "SendNet")
    /\ Alone("out").task = "PlainOut"
    /\ Len(Unwrap(stored["out"]).bytes) = BigLen
    /\ Unwrap(result["out"].netop).bytes[1] = BigLen \div 256

\* C13: the plaintext in task first gives RecvNet for exactly two bytes;
\* with the stored length L it gives RecvNet for exactly L bytes; with L
\* payload bytes stored it gives SendApp with exactly those bytes.
C13_PlainDelivery ==
    (IsSome(program["in"]) /\ Alone("in").task = "PlainIn"
        /\ result["in"].kind = "Ready") =>
        LET p     == Alone("in")
            netop == Unwrap(result["in"].netop)
        IN  /\ p.next_ins_index \in {1, 6, 10}
            /\ p.next_ins_index = 1 =>
                  netop = RecvOp("RecvNet", 2, 3, "length")
            /\ p.next_ins_index = 6 =>
                  /\ Len(HeapGet(p.bytes_heap, "length")) = 2
                  /\ netop = RecvOp("RecvNet",
                                FromBE(HeapGet(p.bytes_heap, "length")),
                                FromBE(HeapGet(p.bytes_heap, "length")) + 1,
                                "payload")
            /\ p.next_ins_index = 10 =>
                  /\ netop = SendOp("SendApp", Unwrap(stored["in"]).bytes)
                  /\ Len(netop.bytes)
                        = FromBE(HeapGet(p.bytes_heap, "length"))

\* A payload of BigLen bytes, announced as <<1, 0>>, reaches the application.
C13_Witness ==
    /\ Gave("in", "SendApp")
    /\ Alone("in").task = "PlainIn"
    /\ Len(Unwrap(result["in"].netop).bytes) = BigLen
    /\ HeapGet(Alone("in").bytes_heap, "length") = <<1, 0>>


\* The peer of the cipher the init task made: same key, the other role.
PeerOf(k) == CipherNew(Unwrap(InterpreterNew(k).cipher).key, "Receiver")

\* C16: in the encrypted out task run on a payload of N bytes, the number
\* ComputeLength gives for length_mac, which SetNumericValue puts in the
\* length field before it is encrypted, is N + 16; each EncryptField gives a
\* ciphertext as long as its field and a 16-byte MAC; the SendNet frame is
\* the sealed length, its MAC, the sealed payload and its MAC, N + 2 + 16 +
\* 16 bytes, and its first field opens at the peer to N + 16.
C16_SealedFrame ==
    (IsSome(program["out"]) /\ Alone("out").task = "EncOut") =>
        LET p     == Alone("out")
            n     == Len(Unwrap(stored["out"]).bytes)
            frame == Unwrap(result["out"].netop).bytes
        IN  /\ HeapHas(p.number_heap, "length_value_on_heap") =>
                  HeapGet(p.number_heap, "length_value_on_heap") = n + 16
            /\ HeapHas(p.bytes_heap, "enc_length_heap") =>
                  /\ Len(HeapGet(p.bytes_heap, "enc_length_heap")) = 2
                  /\ Len(HeapGet(p.bytes_heap, "length_mac_heap")) = 16
            /\ HeapHas(p.bytes_heap, "enc_payload_heap") =>
                  /\ Len(HeapGet(p.bytes_heap, "enc_payload_heap")) = n
                  /\ Len(HeapGet(p.bytes_heap, "payload_mac_heap")) = 16
            /\ Gave("out", "SendNet") =>
                  /\ Len(frame) = n + 2 + 16 + 16
                  /\ frame = HeapGet(p.bytes_heap, "enc_length_heap")
                                \o HeapGet(p.bytes_heap, "length_mac_heap")
                                \o HeapGet(p.bytes_heap, "enc_payload_heap")
                                \o HeapGet(p.bytes_heap, "payload_mac_heap")
                  /\ \E k \in InitTasks :
                        /\ IsSome(InterpreterNew(k).cipher)
                        /\ CipherDecrypt(PeerOf(k), SubSeq(frame, 1, 2),
                                         SubSeq(frame, 3, 18))
                             = [ok |-> TRUE, plaintext |-> ToBE(n + 16, 2),
                                cipher |-> [PeerOf(k) EXCEPT !.dec_n = 1]]

\* A sealed frame for a payload of BigLen bytes: 290 bytes on the wire.
C16_Witness ==
    /\ Gave("out", "SendNet")
    /\ Alone("out").task = "EncOut"
    /\ Len(Unwrap(stored["out"]).bytes) = BigLen
    /\ Len(Unwrap(result["out"].netop).bytes) = BigLen + 34
    /\ HeapGet(Alone("out").number_heap, "length_value_on_heap") = BigLen + 16


\* The step ran the next instruction of direction d, of opcode op, to the
\* end of its match arm.
Ran(d, op) ==
    /\ IsSome(program[d])
    /\ HasNextInstruction(Unwrap(program[d]))
    /\ IsSome(program'[d])
    /\ call_log'[d] = Logged(d)
    /\ Logged(d)[Len(Logged(d))].op = op
    /\ pc'[d] # "panicked"

\* The next instruction of the program of direction d.
Current(d) == Ins(Alone(d))[Alone(d).next_ins_index + 1]

\* The index of field id in the format of msg.
IndexOf(msg, id) ==
    CHOOSE i \in 1..Len(msg.format) : msg.format[i].name = id

\* C17 as stated: ComputeLength stores the number of bytes from the start
\* of field_id through the end of the message, the sum of the lengths of
\* the fields from field_id on.
C17_SuffixFromFieldStart ==
    [][\A d \in Dirs : Ran(d, "ComputeLength") =>
        LET ins == Current(d)
            msg == HeapGet(Alone(d).message_heap, ins.from_msg_heap_id)
            i   == IndexOf(msg, ins.from_field_id)
        IN  HeapGet(Unwrap(program'[d]).number_heap, ins.to_heap_id)
              = SumLens(msg.format, Len(msg.format))
                    - SumLens(msg.format, i - 1)]_vars

\* C17 amended: ComputeLength stores the number of bytes that follow
\* field_id, the sum of the lengths of the fields after field_id (field_id
\* itself is not counted), and leaves the message heap unchanged.
C17_SuffixAfterField ==
    [][\A d \in Dirs : Ran(d, "ComputeLength") =>
        LET ins == Current(d)
            msg == HeapGet(Alone(d).message_heap, ins.from_msg_heap_id)
            i   == IndexOf(msg, ins.from_field_id)
        IN  /\ HeapGet(Unwrap(program'[d]).number_heap, ins.to_heap_id)
                 = SumLens(msg.format, Len(msg.format))
                       - SumLens(msg.format, i)
            /\ Unwrap(program'[d]).message_heap = Alone(d).message_heap
            /\ Unwrap(program'[d]).bytes_heap = Alone(d).bytes_heap
            /\ Unwrap(program'[d]).format_heap = Alone(d).format_heap]_vars

\* Every field of a sealed message of BigLen payload bytes was measured:
\* nothing follows the last field, 16 bytes follow the payload.
C17_Witness ==
    /\ IsSome(program["out"])
    /\ Alone("out").task = "MeasureOut"
    /\ Alone("out").next_ins_index = 7
    /\ HeapGet(Alone("out").number_heap, "after_length") = BigLen + 32
    /\ HeapGet(Alone("out").number_heap, "after_length_mac") = BigLen + 16
    /\ HeapGet(Alone("out").number_heap, "after_payload") = 16
    /\ HeapGet(Alone("out").number_heap, "after_payload_mac") = 0


\* The step ran the next instruction of direction d, of opcode op, and the
\* instruction panicked.
Panicked(d, op) ==
    /\ IsSome(program[d])
    /\ HasNextInstruction(Unwrap(program[d]))
    /\ call_log'[d] = Logged(d)
    /\ Logged(d)[Len(Logged(d))].op = op
    /\ pc'[d] = "panicked"

\* The dynamic fields of an abstract format.
DynFields(aformat) ==
    {aformat[i] : i \in {j \in 1..Len(aformat) : aformat[j].dyn}}

\* The field called name in a concrete format.
Named(cformat, name) ==
    cformat[CHOOSE i \in 1..Len(cformat) : cformat[i].name = name]

\* C18 as stated: ConcretizeFormat needs, for every DynamicArray(SizeOf(id))
\* field, a blob under key id in the byte heap, and gives the field the
\* length of that blob.
C18_SizedByBlobAtSizeOfId ==
    [][\A d \in Dirs : Ran(d, "ConcretizeFormat") =>
        \A f \in DynFields(Current(d).from_format) :
            /\ HeapHas(Alone(d).bytes_heap, f.sizeof)
            /\ Named(HeapGet(Unwrap(program'[d]).format_heap,
                             Current(d).to_heap_id), f.name).len
                 = Len(HeapGet(Alone(d).bytes_heap, f.sizeof))]_vars

\* C18 amended: ConcretizeFormat gives every DynamicArray field the length
\* of the blob stored in the byte heap under the field's own name at that
\* moment, and panics exactly when a dynamic field has no blob under its
\* name; a blob under the SizeOf id is neither needed nor looked at.
C18_SizedByBlobAtFieldName ==
    [][\A d \in Dirs :
        /\ Ran(d, "ConcretizeFormat") =>
            \A f \in DynFields(Current(d).from_format) :
                /\ HeapHas(Alone(d).bytes_heap, f.name)
                /\ Named(HeapGet(Unwrap(program'[d]).format_heap,
                                 Current(d).to_heap_id), f.name).len
                     = Len(HeapGet(Alone(d).bytes_heap, f.name))
        /\ Panicked(d, "ConcretizeFormat") =>
            \E f \in DynFields(Current(d).from_format) :
                ~HeapHas(Alone(d).bytes_heap, f.name)]_vars

\* The in task concretized its payload part for BigLen payload bytes while
\* the blob under "length" has two bytes.
C18_Witness ==
    /\ IsSome(program["in"])
    /\ Alone("in").task = "PlainIn"
    /\ Alone("in").next_ins_index = 7
    /\ Len(HeapGet(Alone("in").bytes_heap, "length")) = 2
    /\ Len(HeapGet(Alone("in").bytes_heap, "payload")) = BigLen
    /\ Named(HeapGet(Alone("in").format_heap, "cformat2"), "payload").len
          = BigLen

\* ConcretizeFormat panicked: the out task was stepped with no payload
\* stored.
C18_AbsenceIsFatal ==
    /\ IsSome(program["out"])
    /\ Alone("out").task = "PlainOut"
    /\ Alone("out").next_ins_index = 1
    /\ pc["out"] = "panicked"
    /\ ~HeapHas(Alone("out").bytes_heap, "payload")


\* C19: SetNumericValue on a numeric field of w bytes and a number v: when
\* v < 256^w the instruction completes and the field holds v big-endian in
\* w bytes, the rest of the message as before; when v >= 256^w the
\* instruction panics and the message is in no heap, so no truncated value
\* was written.
C19_FitsOrFails ==
    [][\A d \in Dirs :
        (/\ Ran(d, "SetNumericValue") \/ Panicked(d, "SetNumericValue")
         /\ HeapHas(Alone(d).number_heap, Current(d).from_heap_id)
         /\ HeapHas(Alone(d).message_heap, Current(d).to_msg_heap_id)) =>
        LET ins  == Current(d)
            v    == HeapGet(Alone(d).number_heap, ins.from_heap_id)
            msg  == HeapGet(Alone(d).message_heap, ins.to_msg_heap_id)
            f    == FieldOf(msg, ins.to_field_id)
            now  == Unwrap(program'[d]).message_heap
        IN  /\ HasField(msg, ins.to_field_id)
            /\ f.len \in NumericWidths
            /\ Ran(d, "SetNumericValue") <=> v < Pow256(f.len)
            /\ Ran(d, "SetNumericValue") =>
                /\ HeapHas(now, ins.to_msg_heap_id)
                /\ Len(now[ins.to_msg_heap_id].data) = Len(msg.data)
                /\ \A i \in 1..Len(msg.data) :
                      now[ins.to_msg_heap_id].data[i] =
                          IF i > f.offset /\ i <= f.offset + f.len
                          THEN (v \div Pow256(f.offset + f.len - i)) % 256
                          ELSE msg.data[i]
                /\ FromBE(GetFieldBytes(now[ins.to_msg_heap_id],
                                        ins.to_field_id)) = v
            /\ Panicked(d, "SetNumericValue") =>
                ~HeapHas(now, ins.to_msg_heap_id)]_vars

\* 256 was to be set into a one-byte field: the instruction panicked and
\* the index did not move.
C19_Witness ==
    /\ IsSome(program["in"])
    /\ Alone("in").task = "NarrowIn"
    /\ Alone("in").next_ins_index = 5
    /\ pc["in"] = "panicked"
    /\ HeapGet(Alone("in").number_heap, "payload_len_value") = BigLen
    /\ ~HeapHas(Alone("in").message_heap, "message_length_part")


\* Every get_next_tasks call so far returned the length-prefixed pair.
PlainPairOnly ==
    \A i \in 1..Len(gnt_log) :
        gnt_log[i].ts = InAndOutTasks("PlainIn", "PlainOut")

\* C14: with a provider that always returns the length-prefixed pair and
\* only the out pipeline (RecvApp, store, SendNet) run, the k-th SendNet is
\* the frame of the k-th payload and is returned after exactly k
\* get_next_tasks calls and k - 1 completed out programs; and every
\* completion of a program sets last_task_id to that program's task id.
C14_RepeatedPipeline ==
    /\ [](( /\ PlainPairOnly
            /\ pump["in"] = PumpNew
            /\ ~pump["out"].strayed
            /\ result["out"].kind = "Ready"
            /\ Unwrap(result["out"].netop).kind = "SendNet") =>
          ( /\ pump["out"].sends = Len(gnt_log)
            /\ completed = pump["out"].sends
            /\ IsSome(stored["out"])
            /\ Unwrap(result["out"].netop).bytes
                  = <<Len(Unwrap(stored["out"]).bytes) \div 256,
                      Len(Unwrap(stored["out"]).bytes) % 256>>
                        \o Unwrap(stored["out"]).bytes
            /\ Len(gnt_log) > 1 =>
                  gnt_log[Len(gnt_log)].arg = TaskDef("PlainOut").id))
    /\ [][\A d \in Dirs :
            (pc[d] = "while" /\ completed' = completed + 1
                /\ IsSome(program[d]) /\ ~IsSome(program'[d])) =>
            last_task_id' = TaskDef(Unwrap(program[d]).task).id]_vars

\* The second SendNet of an out-only run, after two get_next_tasks calls.
C14_Witness ==
    /\ PlainPairOnly
    /\ pump["in"] = PumpNew
    /\ ~pump["out"].strayed
    /\ result["out"].kind = "Ready"
    /\ Unwrap(result["out"].netop).kind = "SendNet"
    /\ pump["out"].sends = MaxLoads
    /\ Len(gnt_log) = MaxLoads

\* The NetOp the out program of the length-prefixed pair gives when it
\* stops before instruction idx.
PlainOutNetOp(idx) ==
    IF idx = 1 THEN RecvOp("RecvApp", 1, 65535, "payload")
    ELSE SendOp("SendNet",
                <<Len(Unwrap(stored["out"]).bytes) \div 256,
                  Len(Unwrap(stored["out"]).bytes) % 256>>
                    \o Unwrap(stored["out"]).bytes)

\* The NetOp the in program of the pair gives when it stops before
\* instruction idx, heap its byte heap.
PlainInNetOp(idx, heap) ==
    IF idx = 1 THEN RecvOp("RecvNet", 2, 3, "length")
    ELSE IF idx = 6
    THEN RecvOp("RecvNet", FromBE(heap["length"]),
                FromBE(heap["length"]) + 1, "payload")
    ELSE SendOp("SendApp", Unwrap(stored["in"]).bytes)

\* C15: with a provider that always returns the length-prefixed pair and
\* two pumps that store what each Recv asks for, however their calls
\* interleave: no call panics (no task-id conflict at a load that meets an
\* occupied slot), no direction is blocked, every out NetOp is RecvApp or
\* the frame of the payload the out pump stored, and every in NetOp is
\* RecvNet of 2 bytes, RecvNet of the announced length or SendApp of the
\* payload the in pump stored.
C15_SameUnderInterleaving ==
    (PlainPairOnly /\ \A d \in Dirs : ~pump[d].strayed) =>
        /\ ~poisoned
        /\ \A d \in Dirs :
            /\ pc[d] # "panicked"
            /\ fatal[d] = ""
            /\ result[d] # PollPending("blocked")
            /\ result[d] # PollPending("poisoned")
            /\ errors[d] = 0
        /\ result["out"].kind = "Ready" =>
              /\ IsSome(current_prog["out"])
              /\ Unwrap(current_prog["out"]).next_ins_index \in {1, 7}
              /\ Unwrap(result["out"].netop) =
                    PlainOutNetOp(Unwrap(current_prog["out"]).next_ins_index)
        /\ result["in"].kind = "Ready" =>
              /\ IsSome(current_prog["in"])
              /\ Unwrap(current_prog["in"]).next_ins_index \in {1, 6, 10}
              /\ Unwrap(result["in"].netop) =
                    PlainInNetOp(Unwrap(current_prog["in"]).next_ins_index,
                                 Unwrap(current_prog["in"]).bytes_heap)

\* Both directions delivered a payload, and a second load met an occupied
\* slot of the same task id.
C15_Witness ==
    /\ PlainPairOnly
    /\ \A d \in Dirs : ~pump[d].strayed /\ pump[d].sends >= 1
    /\ Len(gnt_log) = MaxLoads
    /\ n_new = 4
    /\ result["in"].kind = "Ready"
    /\ Unwrap(result["in"].netop) = SendOp("SendApp", <<7>>)


\* The two ciphers were made with the same key and opposite roles.
OppositeRoles ==
    /\ peers.cipher["alice"].key = peers.cipher["bob"].key
    /\ peers.role["alice"] # peers.role["bob"]

\* C20: for a connected pair with the same key and opposite roles, however
\* the two peers' encryptions and decryptions interleave, no decryption of
\* the n-th ciphertext as the n-th decryption fails, and the n-th plaintext
\* a peer decrypted is the n-th plaintext the other peer encrypted.
C20_NthRoundTrip ==
    OppositeRoles =>
        \A p \in Peers :
            /\ \A i \in 1..Len(peers.missed[p]) :
                  peers.missed[p][i].seq # peers.missed[p][i].pos
            /\ Len(peers.got[p]) <= Len(peers.sent[Other(p)])
            /\ \A n \in 1..Len(peers.got[p]) :
                  peers.got[p][n] = peers.sent[Other(p)][n]

\* Both peers sent MaxMsgs messages and decrypted the other's, bob's
\* second encryption before alice's first decryption.
C20_Witness ==
    /\ OppositeRoles
    /\ \A p \in Peers :
          /\ Len(peers.got[p]) = MaxMsgs
          /\ peers.got[p] = peers.sent[Other(p)]
    /\ peers.sent["alice"] # peers.sent["bob"]
    /\ peers.sent["alice"][1] # peers.sent["alice"][MaxMsgs]


\* C21: the nonces of two different encryptions by one cipher instance
\* differ, and so two encryptions of the same plaintext by one instance
\* give different ciphertexts.
C21_FreshNoncePerEncryption ==
    \A p \in Peers :
        \A i, j \in 1..Len(peers.made[p]) :
            i # j =>
                /\ peers.nonces[p][i] # peers.nonces[p][j]
                /\ peers.sent[p][i] = peers.sent[p][j]
                      => peers.made[p][i] # peers.made[p][j]

C21_Witness ==
    \E p \in Peers :
        /\ Len(peers.made[p]) >= 2
        /\ peers.sent[p][1] = peers.sent[p][2]


\* peer p decrypted (with or without success) in this step.
Decrypts(p) ==
    peers'.cipher[p].decryption_nonce_gen # peers.cipher[p].decryption_nonce_gen

Touched(d, op) ==
    /\ IsSome(program[d])
    /\ HasNextInstruction(Unwrap(program[d]))
    /\ call_log'[d] = Logged(d)
    /\ Logged(d)[Len(Logged(d))].op = op

\* C23 as stated: the cipher changes only in a step that executes
\* EncryptField or DecryptField, and then by exactly one nonce of one
\* generator; every other step leaves the cipher as it is.
C23_OnlyEncryptDecryptTouchCipher ==
    [][cipher' # cipher =>
        /\ IsSome(cipher) /\ IsSome(cipher')
        /\ \E d \in Dirs :
            \/ /\ Touched(d, "EncryptField")
               /\ Unwrap(cipher') = [Unwrap(cipher) EXCEPT !.enc_n = @ + 1]
            \/ /\ Touched(d, "DecryptField")
               /\ Unwrap(cipher') = [Unwrap(cipher) EXCEPT !.dec_n = @ + 1]]_vars

\* C23 amended: the nonce generators are advanced only by EncryptField and
\* DecryptField, by exactly one nonce per executed instruction (a
\* DecryptField whose MAC check fails has drawn its nonce too); the one
\* other step that changes the cipher is InitFixedSharedKey, which installs
\* a new cipher with both generators at their start; every other
\* instruction, task loading, a store and a blocked poll leave it unchanged.
C23_CipherFrame ==
    [][/\ cipher' # cipher =>
            \E d \in Dirs :
                \/ /\ Touched(d, "EncryptField")
                   /\ IsSome(cipher)
                   /\ cipher' = Some([Unwrap(cipher) EXCEPT !.enc_n = @ + 1])
                \/ /\ Touched(d, "DecryptField")
                   /\ IsSome(cipher)
                   /\ cipher' = Some([Unwrap(cipher) EXCEPT !.dec_n = @ + 1])
                \/ /\ Touched(d, "InitFixedSharedKey")
                   /\ IsSome(cipher')
                   /\ Unwrap(cipher').enc_n = 0
                   /\ Unwrap(cipher').dec_n = 0
       /\ \A d \in Dirs :
            /\ Ran(d, "EncryptField") => cipher' # cipher
            /\ Ran(d, "DecryptField") => cipher' # cipher
            /\ Panicked(d, "DecryptField") /\ fatal'[d] = "decrypt_failure"
                  => cipher' # cipher
            /\ Ran(d, "InitFixedSharedKey") =>
                  cipher' = Some(CipherNew(
                      DeriveKey256(Current(d).password, "stupid stupid stupid"),
                      RoleKind(Current(d).role)))]_vars

\* An EncryptField or a DecryptField has moved a generator, and then a store,
\* a load and a blocked poll have happened.
C23_Witness ==
    /\ IsSome(cipher)
    /\ Unwrap(cipher).enc_n + Unwrap(cipher).dec_n > 0
    /\ \E d \in Dirs : result[d] = PollPending("blocked")
    /\ \E d \in Dirs : IsSome(stored[d])
    /\ Len(gnt_log) > 0


\* store_in / store_out of direction d returns in this step.
StoreReturns(d) == pc[d] = "store" /\ pc'[d] = "idle"

\* C24: a store of direction d puts the bytes at the address in the byte
\* heap of the program in d's slot and changes nothing else of it (its
\* next_ins_index and its other heaps stay); with no program in the slot it
\* changes no interpreter state; and it never changes last_task_id,
\* wants_tasks, the cipher, the pending NetOps or the other direction's
\* program.
C24_StoreFrame ==
    [][\A d \in Dirs : StoreReturns(d) =>
        LET a == Unwrap(store_args[d])
        IN  /\ IsSome(current_prog[d]) =>
                /\ IsSome(current_prog'[d])
                /\ Unwrap(current_prog'[d]) =
                      [Unwrap(current_prog[d]) EXCEPT
                          !.bytes_heap = HeapInsert(@, a.addr, a.bytes)]
                /\ HeapGet(Unwrap(current_prog'[d]).bytes_heap, a.addr)
                      = a.bytes
                /\ Unwrap(current_prog'[d]).next_ins_index
                      = Unwrap(current_prog[d]).next_ins_index
            /\ ~IsSome(current_prog[d]) => UNCHANGED interp
            /\ \A x \in Dirs \ {d} : current_prog'[x] = current_prog[x]
            /\ UNCHANGED <<last_task_id, wants_tasks, cipher, next_netop>>]_vars

\* One direction has stored into its program while the other's store found
\* its slot empty.
C24_Witness ==
    \E d \in Dirs :
        /\ result[d] = Stored
        /\ IsSome(current_prog[d])
        /\ IsSome(stored[d])
        /\ HeapHas(Unwrap(current_prog[d]).bytes_heap, Unwrap(stored[d]).addr)
        /\ \E x \in Dirs \ {d} :
            /\ result[x] = Stored
            /\ ~IsSome(current_prog[x])
            /\ ~IsSome(stored[x])


\* C25: construction runs one init task, all of it: until the first
\* get_next_tasks call the interpreter is as some init task left it (the
\* cipher its instructions installed, one program made), last_task_id is
\* that task's id, both slots are empty and wants_tasks is set; and the
\* first get_next_tasks call, made by the first poll of either direction
\* to get that far, is given the init task's id.
C25_ConstructedByInitTask ==
    /\ [](gnt_log = <<>> =>
            /\ \E t \in InitTasks :
                /\ cipher = InterpreterNew(t).cipher
                /\ ~HasNextInstruction(InterpreterNew(t).prog)
                /\ InterpreterNew(t).prog.next_ins_index = Len(TaskDef(t).ins)
                /\ last_task_id = TaskDef(t).id
            /\ \A d \in Dirs : ~IsSome(current_prog[d]) /\ ~IsSome(program[d])
            /\ wants_tasks
            /\ n_new = 1
            /\ completed = 1)
    /\ [][gnt_log = <<>> /\ gnt_log' # <<>> =>
            /\ Len(gnt_log') = 1
            /\ \E d \in Dirs : pc[d] = "loop" /\ holder = d
            /\ \E t \in InitTasks :
                /\ cipher = InterpreterNew(t).cipher
                /\ gnt_log'[1].arg = TaskDef(t).id]_vars

\* The first poll after a construction with the keyed init task has asked
\* for tasks.
C25_Witness ==
    /\ Len(gnt_log) = 1
    /\ gnt_log[1].arg = TaskDef("InitKey").id
    /\ IsSome(cipher)


\* load_tasks returned normally in this step.
LoadReturns ==
    /\ Len(gnt_log') = Len(gnt_log) + 1
    /\ \A d \in Dirs : pc'[d] # "panicked" \/ pc[d] = "panicked"

\* C26: when load_tasks returns normally, wants_tasks is false and at least
\* one slot holds a program: the task set names one or both directions, and
\* the slot of every direction it names then holds a program of the named
\* task's id, the new one or the one that was already there.
C26_LoadFillsASlot ==
    [][LoadReturns =>
        LET ts == gnt_log'[Len(gnt_log')].ts
        IN  /\ ~wants_tasks'
            /\ \E d \in Dirs : IsSome(current_prog'[d])
            /\ \E d \in Dirs : ts[d] # ""
            /\ \A d \in Dirs :
                /\ ts[d] # "" =>
                    /\ IsSome(current_prog'[d])
                    /\ TaskId(Unwrap(current_prog'[d])) = TaskDef(ts[d]).id
                    /\ IsSome(current_prog[d])
                          => current_prog'[d] = current_prog[d]
                    /\ ~IsSome(current_prog[d])
                          => Unwrap(current_prog'[d]).task = ts[d]
                /\ ts[d] = "" => current_prog'[d] = current_prog[d]]_vars

\* A second load has returned and left in place a program of the same id
\* as the task it named for that direction.
C26_Witness ==
    /\ Len(gnt_log) = 2
    /\ ~wants_tasks
    /\ \E d \in Dirs : pc[d] = "loop"
    /\ \E x \in Dirs :
        /\ gnt_log[2].ts[x] # ""
        /\ IsSome(current_prog[x])
        /\ Unwrap(current_prog[x]).task # gnt_log[2].ts[x]


\* Task loading has left direction d without a program.
Unfilled(d) ==
    /\ ~wants_tasks
    /\ ~IsSome(current_prog[d])
    /\ ~IsSome(program[d])

\* C27: while task loading has left direction d without a program, a poll
\* of d returns blocked and changes neither last_task_id nor the other
\* direction's program, and d is given no NetOp; this lasts until the other
\* direction completes a program, which sets last_task_id to that program's
\* task id and sets wants_tasks, so that the next load is a new
\* get_next_tasks call with that id.
C27_BlockedUntilOtherCompletes ==
    [][/\ \A d \in Dirs : Unfilled(d) =>
            /\ result'[d].kind # "Ready"
            /\ pc[d] = "loop" =>
                /\ pc'[d] \in {"loop", "idle"}
                /\ pc'[d] = "idle" =>
                    /\ result'[d] = PollPending("blocked")
                    /\ last_task_id' = last_task_id
                    /\ \A x \in Dirs \ {d} :
                        /\ current_prog'[x] = current_prog[x]
                        /\ program'[x] = program[x]
            /\ \/ Unfilled(d)'
               \/ \E x \in Dirs \ {d} :
                    /\ IsSome(program[x])
                    /\ ~HasNextInstruction(Unwrap(program[x]))
                    /\ ~IsSome(program'[x])
                    /\ completed' = completed + 1
                    /\ last_task_id' = TaskId(Unwrap(program[x]))
                    /\ wants_tasks'
       /\ wants_tasks /\ ~wants_tasks' =>
            /\ Len(gnt_log') = Len(gnt_log) + 1
            /\ gnt_log'[Len(gnt_log')].arg = last_task_id]_vars

\* Direction d was answered blocked after the first load, and the other
\* direction has completed its program since.
C27_Witness ==
    \E d \in Dirs :
        /\ Len(gnt_log) = 1
        /\ gnt_log[1].ts[d] = ""
        /\ result[d] = PollPending("blocked")
        /\ completed = 2
        /\ wants_tasks


\* C28: the public encrypt of a ciphertext_len of at least the tag length,
\* given a cursor with at least ciphertext_len - 16 bytes remaining, returns
\* exactly ciphertext_len bytes and advances the cursor by exactly
\* ciphertext_len - 16; the bytes it consumed are what was encrypted, and
\* what the peer of the opposite role decrypts from the n-th ciphertext, as
\* its n-th decryption, is the prefix the n-th encryption consumed.
C28_PublicEncryptSizes ==
    \A p \in Peers :
        LET call == peers.api[p]
        IN  /\ call.kind # "None" =>
                (call.kind = "Ok" <=>
                    /\ call.len >= MacLen
                    /\ Remaining(call.cursor) >= call.len - MacLen)
            /\ call.kind = "Ok" =>
                /\ Len(call.out) = call.len
                /\ call.pos = call.cursor.pos + (call.len - MacLen)
                /\ peers.made[p][call.seq] = call.out
                /\ peers.sent[p][call.seq]
                      = SubSeq(call.cursor.bytes, call.cursor.pos + 1, call.pos)
            /\ call.kind \in {"Err", "panic"} =>
                /\ call.out = <<>>
                /\ call.pos = call.cursor.pos
            /\ OppositeRoles =>
                /\ \A n \in 1..Len(peers.got[Other(p)]) :
                      peers.got[Other(p)][n] = peers.sent[p][n]
                /\ \A i \in 1..Len(peers.missed[Other(p)]) :
                      peers.missed[Other(p)][i].seq
                          # peers.missed[Other(p)][i].pos

\* A partial write: a peer encrypted one byte of a longer plaintext into a
\* frame of 17 bytes, and the other peer has decrypted that byte.
C28_Witness ==
    \E p \in Peers :
        /\ OppositeRoles
        /\ peers.api[p].kind = "Ok"
        /\ peers.api[p].len = MacLen + 1
        /\ Remaining(peers.api[p].cursor) > 1
        /\ peers.api[p].seq = 1
        /\ peers.got[Other(p)] = <<SubSeq(peers.api[p].cursor.bytes,
                                         peers.api[p].cursor.pos + 1,
                                         peers.api[p].pos)>>


\* The half-open range of lengths the claim gives for a ReadNet.
StatedRange(ins, heap) ==
    CASE ins.from_len = "Range" -> [lo |-> ins.lo, hi |-> ins.hi]
      [] ins.from_len = "Identifier" ->
            [lo |-> HeapGet(heap, ins.id), hi |-> HeapGet(heap, ins.id) + 1]
      [] ins.from_len = "IdentifierMinus" ->
            [lo |-> HeapGet(heap, ins.id) - ins.sub,
             hi |-> HeapGet(heap, ins.id) - ins.sub + 1]

\* ReadNet of direction d's program published a RecvNet of the stated
\* range and left the number heap as it was.
PublishesStated(d) ==
    /\ pc'[d] # "panicked"
    /\ result'[d].kind = "Ready"
    /\ Unwrap(result'[d].netop).kind = "RecvNet"
    /\ Unwrap(result'[d].netop).addr = Current(d).to_heap_id
    /\ Unwrap(result'[d].netop).lo
          = StatedRange(Current(d), Alone(d).number_heap).lo
    /\ Unwrap(result'[d].netop).hi
          = StatedRange(Current(d), Alone(d).number_heap).hi
    /\ Unwrap(program'[d]).number_heap = Alone(d).number_heap

\* C29 as stated: ReadNet publishes RecvNet with the range passed unchanged
\* for Range, [n, n + 1) for Identifier(id) and [n - k, n - k + 1) for
\* IdentifierMinus(id, k), n being number_heap[id], and leaves the number
\* heap unchanged.
C29_PublishesStatedRange ==
    [][\A d \in Dirs : Touched(d, "ReadNet") => PublishesStated(d)]_vars

\* What holds of C29: the same, for every ReadNet whose n - k is not
\* negative.
C29_PublishesUnlessUnderflow ==
    [][\A d \in Dirs :
        ( /\ Touched(d, "ReadNet")
          /\ StatedRange(Current(d), Alone(d).number_heap).lo >= 0 )
            => PublishesStated(d)]_vars

\* An IdentifierMinus whose number is less than what it subtracts has run
\* in the build that wraps.
C29_Underflowed ==
    \E d \in Dirs :
        /\ result[d].kind = "Ready"
        /\ Unwrap(result[d].netop).kind = "RecvNet"
        /\ Unwrap(result[d].netop).lo > BigLen
        /\ ~overflow_checks


\* C30: CreateMessage removes the concrete format from the format heap and
\* puts a message under to_heap_id, and a CreateMessage whose format id is
\* absent (as after a first CreateMessage from it) is fatal; WriteApp and
\* WriteNet remove the message from the message heap; GetArrayBytes,
\* GetNumericValue, ComputeLength, EncryptField and DecryptField leave the
\* message heap as it was; SetArrayBytes and SetNumericValue leave a message
\* under the same id, and no other id of the message heap changes.
C30_WhoConsumesWhat ==
    [][\A d \in Dirs :
        /\ Ran(d, "CreateMessage") =>
            /\ HeapHas(Alone(d).format_heap, Current(d).from_format_heap_id)
            /\ ~HeapHas(Unwrap(program'[d]).format_heap,
                        Current(d).from_format_heap_id)
            /\ HeapHas(Unwrap(program'[d]).message_heap,
                       Current(d).to_heap_id)
        /\ ( /\ Touched(d, "CreateMessage")
             /\ ~HeapHas(Alone(d).format_heap,
                         Current(d).from_format_heap_id) )
                => pc'[d] = "panicked"
        /\ \A op \in {"WriteApp", "WriteNet"} : Ran(d, op) =>
            /\ HeapHas(Alone(d).message_heap, Current(d).from_msg_heap_id)
            /\ ~HeapHas(Unwrap(program'[d]).message_heap,
                        Current(d).from_msg_heap_id)
        /\ \A op \in {"GetArrayBytes", "GetNumericValue", "ComputeLength",
                      "EncryptField", "DecryptField"} : Ran(d, op) =>
            /\ HeapHas(Alone(d).message_heap, Current(d).from_msg_heap_id)
            /\ Unwrap(program'[d]).message_heap = Alone(d).message_heap
        /\ \A op \in {"SetArrayBytes", "SetNumericValue"} : Ran(d, op) =>
            /\ HeapHas(Alone(d).message_heap, Current(d).to_msg_heap_id)
            /\ HeapHas(Unwrap(program'[d]).message_heap,
                       Current(d).to_msg_heap_id)
            /\ HeapRemove(Unwrap(program'[d]).message_heap,
                          Current(d).to_msg_heap_id)
                  = HeapRemove(Alone(d).message_heap,
                               Current(d).to_msg_heap_id)]_vars

\* A program has copied a field out of its message, which is still there,
\* and its second CreateMessage from the consumed format has panicked.
C30_Witness ==
    \E d \in Dirs :
        /\ pc[d] = "panicked"
        /\ fatal[d] = "missing_key"
        /\ IsSome(program[d])
        /\ Alone(d).task = "TwiceOut"
        /\ HeapHas(Alone(d).bytes_heap, "copy")
        /\ HeapHas(Alone(d).message_heap, "message")
        /\ ~HeapHas(Alone(d).format_heap, "cformat")


\* The four heaps of a program are as Program::new leaves them.
FreshHeaps(prog) ==
    /\ prog.bytes_heap = EmptyHeap
    /\ prog.format_heap = EmptyHeap
    /\ prog.message_heap = EmptyHeap
    /\ prog.number_heap = EmptyHeap

\* The call of direction d is inside the interpreter before or after the
\* step: the step belongs to that call.
Moves(d) == pc[d] # "idle" \/ pc'[d] # "idle"

\* The program is one that the step has made (Program::new numbers the
\* instances in the order of their creation).
MadeNow(prog) == prog.inst >= n_new /\ prog.inst < n_new'

\* C31: heaps are private to one program instance.  A program that a step
\* installs starts at instruction 0 with four empty heaps, whatever the
\* heaps of the programs that exist or of a completed predecessor held; and
\* a step of one direction's call (an instruction, a store, a load, a
\* completion) leaves every existing program of the other direction exactly
\* as it was, the only programs it can add to the other direction being
\* newly made ones.
C31_HeapsPrivate ==
    [][/\ \A d \in Dirs : \A prog \in Programs(d)' :
            MadeNow(prog) => FreshHeaps(prog) /\ prog.next_ins_index = 0
       /\ \A d \in Dirs : \A o \in Dirs \ {d} :
            Moves(d) =>
                /\ Programs(o) \subseteq Programs(o)'
                /\ \A prog \in Programs(o)' \ Programs(o) : MadeNow(prog)]_vars

\* A program has been installed, with empty heaps, after a program of the
\* same task id completed, while the other direction's program holds values
\* in its heaps.
C31_Witness ==
    \E d \in Dirs : \E prog \in Programs(d) : \E other \in Programs(
                                                   IF d = "in" THEN "out" ELSE "in") :
        /\ completed > 1
        /\ last_done = TaskId(prog)
        /\ prog.inst > 2
        /\ FreshHeaps(prog)
        /\ ~FreshHeaps(other)
        /\ other.inst < prog.inst


\* The kind of cipher and the nonce seeds a role stands for.
InstalledFor(c, role) ==
    /\ role = "Client" => c.kind = "Sender" /\ c.enc_seed = SeedA
                                            /\ c.dec_seed = SeedB
    /\ role = "Server" => c.kind = "Receiver" /\ c.enc_seed = SeedB
                                              /\ c.dec_seed = SeedA

\* C32: the cipher belongs to the interpreter.  The cipher the init task
\* installed is there at the first load, of the kind its role stands for
\* (Client: Sender, Server: Receiver, also for a later InitFixedSharedKey);
\* an installed cipher is never removed; a step that completes a program,
\* loads tasks or makes a program leaves the cipher as it is; and in every
\* step that does not execute InitFixedSharedKey the key, the kind and the
\* seeds stay and neither nonce stream goes back, so that the programs of
\* both directions, one after the other, draw from the same two streams.
C32_CipherOfInterpreter ==
    /\ [](gnt_log = <<>> /\ last_task_id = TaskDef("InitKey").id =>
            /\ IsSome(cipher)
            /\ InstalledFor(Unwrap(cipher), TaskDef("InitKey").ins[1].role)
            /\ Unwrap(cipher).enc_n = 0
            /\ Unwrap(cipher).dec_n = 0)
    /\ [][/\ IsSome(cipher) => IsSome(cipher')
          /\ (completed' # completed \/ gnt_log' # gnt_log \/ n_new' # n_new)
                => cipher' = cipher
          /\ \A d \in Dirs : Ran(d, "InitFixedSharedKey") =>
                InstalledFor(Unwrap(cipher'), Current(d).role)
          /\ (IsSome(cipher) /\ \A d \in Dirs :
                                    ~Touched(d, "InitFixedSharedKey")) =>
                /\ Unwrap(cipher').key = Unwrap(cipher).key
                /\ Unwrap(cipher').kind = Unwrap(cipher).kind
                /\ Unwrap(cipher').enc_seed = Unwrap(cipher).enc_seed
                /\ Unwrap(cipher').dec_seed = Unwrap(cipher).dec_seed
                /\ Unwrap(cipher').enc_n >= Unwrap(cipher).enc_n
                /\ Unwrap(cipher').dec_n >= Unwrap(cipher).dec_n]_vars

\* The cipher of the init task has sealed for two program instances of the
\* out direction, one loaded after the other completed, and opened for a
\* program of the in direction.
C32_Witness ==
    /\ IsSome(cipher)
    /\ Unwrap(cipher).kind = "Sender"
    /\ Unwrap(cipher).enc_n = 2
    /\ Unwrap(cipher).dec_n > 0
    /\ Len(gnt_log) = 2
    /\ completed > 1
    /\ n_new > 3


\* C33 as stated: while no call is inside the interpreter both pending
\* NetOp slots are empty, and the NetOp a poll of direction d returned
\* (other than an Error) is one that an instruction of d's program,
\* executed during that poll, has published for d.
C33_OwnNetOpOnly ==
    /\ holder = "none" => \A d \in Dirs : ~IsSome(next_netop[d])
    /\ \A d \in Dirs :
        (result[d].kind = "Ready" /\ Unwrap(result[d].netop).kind # "Error") =>
            \E i \in 1..Len(call_log[d]) :
                /\ Publishes(call_log[d][i].op, d)
                /\ NetOpKindOf(call_log[d][i].op) = Unwrap(result[d].netop).kind


\* C34 as stated: after a call of direction d has failed fatally inside the
\* interpreter, the other direction can still take the mutex: whenever no
\* call holds it try_lock succeeds, and no poll or store of the other
\* direction is turned away because of the failure.
C34_FatalKillsOneDirection ==
    \A d \in Dirs : pc[d] = "panicked" =>
        /\ holder = "none" => TryLockOk
        /\ \A o \in Dirs \ {d} : result[o] # PollPending("poisoned")


\* The directions for which the answer names a task and whose slot is empty.
Vacant(ts) == {x \in Dirs : ts[x] # "" /\ ~IsSome(current_prog[x])}

\* C35: when the call of direction d, its program completed, loads an
\* answer that names for the other direction o a task of the id of the
\* program in o's slot, the load returns normally, the program in o's slot
\* is what it was (its task, next_ins_index, four heaps with the bytes
\* stored for a pending Recv, also when it has no instruction left), and
\* the task named for o is dropped: programs are made for vacant slots only.
C35_SameIdKeepsOccupant ==
    [][\A d \in Dirs : \A o \in Dirs \ {d} :
        LET ts == gnt_log'[Len(gnt_log')].ts
        IN  (/\ Len(gnt_log') = Len(gnt_log) + 1
             /\ pc[d] = "loop"
             /\ IsSome(current_prog[o])
             /\ ts[o] # ""
             /\ TaskDef(ts[o]).id = TaskId(Unwrap(current_prog[o]))
             /\ ~IsSome(current_prog[d]))
            => /\ pc'[d] = "loop"
               /\ IsSome(current_prog'[o])
               /\ Unwrap(current_prog'[o]).task = Unwrap(current_prog[o]).task
               /\ Unwrap(current_prog'[o]).inst = Unwrap(current_prog[o]).inst
               /\ Unwrap(current_prog'[o]).next_ins_index
                     = Unwrap(current_prog[o]).next_ins_index
               /\ Unwrap(current_prog'[o]).bytes_heap
                     = Unwrap(current_prog[o]).bytes_heap
               /\ Unwrap(current_prog'[o]).format_heap
                     = Unwrap(current_prog[o]).format_heap
               /\ Unwrap(current_prog'[o]).message_heap
                     = Unwrap(current_prog[o]).message_heap
               /\ Unwrap(current_prog'[o]).number_heap
                     = Unwrap(current_prog[o]).number_heap
               /\ n_new' = n_new + Cardinality(Vacant(ts))]_vars

\* Direction d completed its program and its second load named, for the
\* other direction, a task of the id of the occupant; the occupant, made by
\* the first load, is still there with the bytes stored for its Recv and
\* with no instruction left.
C35_Witness ==
    \E d \in Dirs : \E o \in Dirs \ {d} :
        /\ Len(gnt_log) = 2
        /\ pc[d] = "loop"
        /\ ~wants_tasks
        /\ gnt_log[2].completed > gnt_log[1].completed
        /\ gnt_log[2].ts[o] # ""
        /\ IsSome(current_prog[o])
        /\ TaskDef(gnt_log[2].ts[o]).id = TaskId(Unwrap(current_prog[o]))
        /\ Unwrap(current_prog[o]).inst < 3
        /\ Unwrap(current_prog[o]).bytes_heap # EmptyHeap
        /\ ~HasNextInstruction(Unwrap(current_prog[o]))


\* The last call of direction d's pump was the store it owed for the Recv
\* NetOp that its poll before had returned.
StoredForRecv(d) ==
    /\ result[d] = Stored
    /\ ~pump[d].strayed
    /\ pump[d].polled

\* The bytes of d's last store are in the byte heap of the program
\* instance whose instruction, the last of d's last poll, published the
\* Recv for d.
LandedInIssuer(d) ==
    /\ call_log[d] # <<>>
    /\ Publishes(call_log[d][Len(call_log[d])].op, d)
    /\ IsSome(stored[d])
    /\ Unwrap(stored[d]).inst = call_log[d][Len(call_log[d])].inst
    /\ IsSome(current_prog[d])
    /\ Unwrap(current_prog[d]).inst = Unwrap(stored[d]).inst
    /\ HeapHas(Unwrap(current_prog[d]).bytes_heap, Unwrap(stored[d]).addr)
    /\ HeapGet(Unwrap(current_prog[d]).bytes_heap, Unwrap(stored[d]).addr)
          = Unwrap(stored[d]).bytes

\* C36 as stated: with the two pumps interleaved in every way, the bytes a
\* pump stores after it was given a Recv NetOp are in the byte heap of the
\* program instance that issued that Recv.
C36_StoreLandsInIssuer ==
    \A d \in Dirs : StoredForRecv(d) => LandedInIssuer(d)

\* For a Recv that the polled direction's own program published, the store
\* lands in that program whatever the other direction did in between.
C36_OwnRecvLandsInIssuer ==
    \A d \in Dirs :
        (/\ StoredForRecv(d)
         /\ call_log[d] # <<>>
         /\ Publishes(call_log[d][Len(call_log[d])].op, d))
        => LandedInIssuer(d)

\* A store for a program's own Recv has landed after the other direction
\* completed a program and loaded tasks.
C36_OwnRecvLanded ==
    \E d \in Dirs :
        /\ StoredForRecv(d)
        /\ LandedInIssuer(d)
        /\ Len(gnt_log) = 2
        /\ Unwrap(stored[d]).inst < 3
        /\ n_new > 3


\* C37 as stated: a ReadNet with IdentifierMinus(id, k) whose number
\* n = number_heap[id] is less than k fails fatally and publishes nothing;
\* otherwise it publishes the range [n - k, n - k + 1), whose end has not
\* wrapped.
C37_NoWrappedLength ==
    [][\A d \in Dirs :
        ( /\ Touched(d, "ReadNet")
          /\ Current(d).from_len = "IdentifierMinus"
          /\ HeapHas(Alone(d).number_heap, Current(d).id) )
        => IF HeapGet(Alone(d).number_heap, Current(d).id) < Current(d).sub
           THEN /\ pc'[d] = "panicked"
                /\ result'[d].kind # "Ready"
                /\ next_netop' = next_netop
           ELSE /\ result'[d].kind = "Ready"
                /\ Unwrap(result'[d].netop).kind = "RecvNet"
                /\ Unwrap(result'[d].netop).lo
                      = HeapGet(Alone(d).number_heap, Current(d).id)
                            - Current(d).sub
                /\ Unwrap(result'[d].netop).hi
                      = Unwrap(result'[d].netop).lo + 1]_vars


\* The payload the application delivered to the program of direction d is
\* of a length in the range the program's ReadApp asked for.
InAskedRange(d) ==
    /\ HeapHas(Alone(d).bytes_heap, "payload")
    /\ Len(HeapGet(Alone(d).bytes_heap, "payload")) >= Ins(Alone(d))[1].lo
    /\ Len(HeapGet(Alone(d).bytes_heap, "payload")) < Ins(Alone(d))[1].hi

\* The length the out task is to put on the wire for a payload of n bytes:
\* n for the plaintext task, n and the payload's tag for the encrypted one.
WireLength(task, n) == IF task = "EncOut" THEN n + MacLen ELSE n

\* C38: in the two out tasks, for every payload of a length in the range
\* their ReadApp asks for, the number ComputeLength stores is the length to
\* put on the wire and is less than 256^2, and the SetNumericValue that
\* follows does not fail and leaves that number in the two-byte length field.
C38_LengthFitsU16 ==
    [][\A d \in Dirs :
        /\ (Ran(d, "ComputeLength") /\ InAskedRange(d)) =>
            /\ HeapGet(Unwrap(program'[d]).number_heap, Current(d).to_heap_id)
                  = WireLength(Alone(d).task,
                               Len(HeapGet(Alone(d).bytes_heap, "payload")))
            /\ HeapGet(Unwrap(program'[d]).number_heap, Current(d).to_heap_id)
                  < Pow256(FieldOf(HeapGet(Alone(d).message_heap, "message"),
                                   "length").len)
        /\ (Touched(d, "SetNumericValue") /\ InAskedRange(d)) =>
            /\ pc'[d] # "panicked"
            /\ Ran(d, "SetNumericValue")
            /\ FieldOf(HeapGet(Alone(d).message_heap, "message"),
                       "length").len = 2
            /\ FromBE(GetFieldBytes(
                    HeapGet(Unwrap(program'[d]).message_heap, "message"),
                    "length"))
                  = WireLength(Alone(d).task,
                               Len(HeapGet(Alone(d).bytes_heap, "payload")))]_vars

\* The plaintext out task has written the length of the longest payload its
\* ReadApp allows into the length field.
C38_LongestWritten ==
    /\ IsSome(program["out"])
    /\ Alone("out").task = "PlainOut"
    /\ pc["out"] = "while"
    /\ Alone("out").next_ins_index = 6
    /\ Len(HeapGet(Alone("out").bytes_heap, "payload"))
          = Ins(Alone("out"))[1].hi - 1
    /\ GetFieldBytes(HeapGet(Alone("out").message_heap, "message"), "length")
          = <<255, 254>>

\* The encrypted out task has been given a payload of two bytes and has
\* written 18, the payload and its tag, into the two-byte length field.
C38_Witness ==
    /\ IsSome(program["out"])
    /\ Alone("out").task = "EncOut"
    /\ pc["out"] = "while"
    /\ Alone("out").next_ins_index = 6
    /\ call_log["out"][Len(call_log["out"])].op = "SetNumericValue"
    /\ Len(HeapGet(Alone("out").bytes_heap, "payload"))
          = Ins(Alone("out"))[1].lo + 1
    /\ HeapGet(Alone("out").number_heap, "length_value_on_heap")
          = Ins(Alone("out"))[1].lo + 1 + MacLen
    /\ GetFieldBytes(HeapGet(Alone("out").message_heap, "message"), "length")
          = <<0, Ins(Alone("out"))[1].lo + 1 + MacLen>>


\* C39 as stated: after the exchange of public keys the two modules have
\* opposite roles, and each one's encryption nonce seed is the other one's
\* decryption nonce seed, whatever keys the two drew.
C39_OppositeRolesAlways ==
    /\ peers.role["alice"] # peers.role["bob"]
    /\ \A p \in Peers :
          peers.cipher[p].encryption_nonce_gen.nonce
              = peers.cipher[Other(p)].decryption_nonce_gen.nonce


\* The public encrypt of peer p returned Err(CryptFailure) in this step.
RefusedNow(p) ==
    /\ peers'.api[p] # peers.api[p]
    /\ peers'.api[p].kind = "Err"

\* C40: the public encrypt called with a ciphertext_len below the tag length
\* of 16 returns Err(CryptFailure), and only then; the refusal leaves the
\* cursor where it was, consumes no nonce and sends nothing, and a valid
\* encrypt that follows it is decrypted by the peer to the bytes it took.
C40_RefusalChangesNothing ==
    [][\A p \in Peers :
        /\ peers'.api[p] # peers.api[p] =>
              (peers'.api[p].kind = "Err" <=> peers'.api[p].len < MacLen)
        /\ RefusedNow(p) =>
              /\ peers'.api[p].pos = peers'.api[p].cursor.pos
              /\ peers'.api[p].out = <<>>
              /\ peers'.cipher = peers.cipher
              /\ peers'.sent = peers.sent
              /\ peers'.wire = peers.wire
              /\ peers'.down = peers.down
        /\ (/\ OppositeRoles
            /\ peers.api[p].kind = "Ok"
            /\ peers.api[p].prev = "Err"
            /\ Len(peers'.got[Other(p)]) > Len(peers.got[Other(p)])) =>
              peers'.got[Other(p)][Len(peers'.got[Other(p)])]
                  = peers.sent[p][Len(peers'.got[Other(p)])]
    ]_vars

\* A peer was refused a 15-byte ciphertext, then encrypted its first frame,
\* and the other peer has decrypted that frame to the bytes taken.
C40_Witness ==
    \E p \in Peers :
        /\ OppositeRoles
        /\ peers.api[p].kind = "Ok"
        /\ peers.api[p].prev = "Err"
        /\ peers.api[p].seq = 1
        /\ peers.api[p].len > MacLen
        /\ Len(peers.got[Other(p)]) = 1
        /\ peers.got[Other(p)][1] = peers.sent[p][1]
        /\ peers.nonces[p]
              = <<GetNonce(Salsa20New(peers.cipher[p].key,
                      IF peers.role[p] = "Sender" THEN SeedA ELSE SeedB)).nonce>>

====
